---------------------------- MODULE Spec2Model ----------------------------
(***************************************************************************)
(* Feedback ingestion, classification, routing and auto-reply pipeline.    *)
(*                                                                         *)
(* The module models                                                       *)
(*   - the `messages` table of unified_messages.db (the Message Store),    *)
(*   - the ingestion adapters that write to it (Slack channel fetch,       *)
(*     Reddit poller, add_message, the Reddit migration),                  *)
(*   - the Processing Pipeline (MessageProcessor and the MCP tool          *)
(*     process_feedback_queue_unified),                                    *)
(*   - the Slack reply subsystem (SlackReplySystem) with its persisted     *)
(*     processed_messages.txt log.                                         *)
(*                                                                         *)
(* Environment assumptions: the local store and the local log file are     *)
(* reliable (statements on them do not raise); remote calls (Slack posts,  *)
(* Slack history fetches) may fail, and every such outcome is a            *)
(* nondeterministic choice.  There is one worker: an ingestion adapter     *)
(* writes between two pipeline cycles, and a process is stopped or         *)
(* replaced between two iterations of its loop (the await points of the    *)
(* code), not inside a statement.  Every pipeline cycle uses a fresh       *)
(* MessageProcessor, as check_message_processor does; its session counters *)
(* start at 0.  A text is represented by its name; the functions of the    *)
(* code that read a text (keyword search, prefix stripping, cleaning) are  *)
(* tabulated on the texts of the model.                                    *)
(***************************************************************************)
EXTENDS Integers, Sequences, FiniteSets, TLC

(***************************************************************************)
(* Bounds of the model.                                                    *)
(***************************************************************************)
MaxClock == 1      \* datetime.now() takes the values 0..MaxClock
MaxPosts == 2      \* channel posts / replies are counted up to this value
MaxBatch == 2      \* batch sizes 1..MaxBatch, and None (all messages)

None == "None"

(***************************************************************************)
(* Generic helpers.                                                        *)
(***************************************************************************)
Range(s) == {s[i] : i \in 1..Len(s)}

Min(a, b) == IF a < b THEN a ELSE b

RECURSIVE SumSeq(_)
SumSeq(s) == IF s = <<>> THEN 0 ELSE Head(s) + SumSeq(Tail(s))

\* stands for limit = None / batch_size = None: no limit
NoLimit == -1

\* the first n elements of s (LIMIT n, python s[:n]); all of s for NoLimit
Take(s, n) == IF n = NoLimit \/ n >= Len(s) THEN s ELSE SubSeq(s, 1, n)

(***************************************************************************)
(* Texts.  KeywordsIn(t) is the set of vocabulary phrases that occur in    *)
(* the lower-cased text t (python `keyword in message`).                   *)
(***************************************************************************)
RawTexts == {"cashout", "review_raw", "earnings", "thanks"}

\* "cashout":    My instant cash out took much longer than usual, and I
\*               couldn't figure out what the fee was for. Help!
\* "review_raw": App Store review: 2 stars. Terrible, it keeps failing
\* "review":     2 stars. Terrible, it keeps failing
\* "earnings":   I just love how easy it is to see my earnings now, thanks!
\* "thanks":     I love it, thanks!
\* "mixed":      Great app but the instant transfer is slow
\* "problem":    I can't cash out my money
\* "blank":      three spaces
\* "bug":        Terrible bug, everything is broken
\* "feature":    Please add a dark theme
\* "fee":        What is the fee?
\* "card":       The fee on my debit card
\* "tie":        Unable to get instant cash, and no alert or reminder
KeywordsIn(t) ==
    CASE t \in {"cashout", "cashout_clean"} ->
             {"cash out", "fee", "help", "instant", "instant cash", "what"}
      [] t = "review_raw"     -> {"app", "fail", "terrible"}
      [] t = "review"         -> {"fail", "terrible"}
      [] t = "earnings"       -> {"earning", "earnings", "how", "love",
                                  "thanks"}
      [] t = "thanks"         -> {"love", "thanks"}
      [] t = "mixed"          -> {"app", "great", "instant", "slow",
                                  "transfer"}
      [] t = "problem"        -> {"can't", "cash out", "money"}
      [] t = "bug"            -> {"broken", "bug", "terrible"}
      [] t = "feature"        -> {"add"}
      [] t = "fee"            -> {"?", "fee", "what"}
      [] t = "card"           -> {"card", "debit", "fee"}
      [] t = "tie"            -> {"alert", "instant", "instant cash",
                                  "reminder", "unable to", "unable to get"}
      [] OTHER                -> {}

\* re.sub(r'\s+', ' ', content.strip()) and removal of the characters
\* outside [\w\s.,!?\-@#]: the apostrophe of "cashout", nothing of the others
CleanContent(t) == IF t = "cashout" THEN "cashout_clean" ELSE t

\* "App Store" in text or "iOS" in text
MentionsAppStore(t) == t = "review_raw"

\* "Play Store" in text or "Android" in text or "Google Play" in text
MentionsPlayStore(t) == FALSE

\* re.sub of the prefixes 'App Store.*?:', ... and strip()
StripReviewPrefixes(t) == IF t = "review_raw" THEN "review" ELSE t

(***************************************************************************)
(* MessageClassifier (message_classifier.py).  Scores are kept as integers *)
(* scaled by 100: base weight 0.2 * words + 0.3 is 20 * words + 30.        *)
(***************************************************************************)
L1Order == <<"PAYMENTS", "PRODUCT_FEEDBACK", "TECHNICAL_ISSUES",
             "CUSTOMER_EXPERIENCE", "TRUST_SECURITY", "ONBOARDING",
             "NOTIFICATIONS">>

KEYWORDS(c) ==
    CASE c = "PAYMENTS" ->
           <<"cash out", "cashout", "instant cash", "transfer", "withdraw",
             "deposit", "fee", "fees", "cost", "charge", "money", "payment",
             "balance", "funds", "earning", "earnings", "get the earning",
             "not able to get", "unable to get", "not able to cashout",
             "unable to cashout", "cashout issue", "cashout problem">>
      [] c = "PRODUCT_FEEDBACK" ->
           <<"feature", "functionality", "tip jar", "earnin card", "insights",
             "analytics", "financial tools", "app", "interface", "ui", "ux",
             "design", "navigation", "product", "earnin product", "liked",
             "didnt like", "dont like", "like it">>
      [] c = "TECHNICAL_ISSUES" ->
           <<"bug", "error", "crash", "freeze", "slow", "loading",
             "connection", "network", "technical", "issue", "problem",
             "broken", "not working", "glitch">>
      [] c = "CUSTOMER_EXPERIENCE" ->
           <<"support", "help", "customer service", "assistance", "response",
             "wait time", "experience", "satisfaction", "frustrated",
             "confused", "unclear", "customer support">>
      [] c = "TRUST_SECURITY" ->
           <<"security", "privacy", "trust", "safe", "secure", "data",
             "personal information", "fraud", "scam", "suspicious",
             "verification", "identity", "security features">>
      [] c = "ONBOARDING" ->
           <<"sign up", "signup", "register", "account", "verification",
             "setup", "onboarding", "bank account", "connect", "link",
             "verify", "document", "id", "bank connection">>
      [] c = "NOTIFICATIONS" ->
           <<"notification", "alert", "reminder", "email", "sms", "push",
             "message", "communication", "update", "newsletter">>

L2Order == <<"CASH_OUT", "EARNIN_CARD", "LIGHTNING_SPEED", "INSIGHTS_TOOLS",
             "BANK_CONNECTIONS", "APP_UX_PERFORMANCE", "CUSTOMER_SUPPORT",
             "SECURITY_COMPLIANCE">>

L2_KEYWORDS(c) ==
    CASE c = "CASH_OUT" ->
           <<"cash out", "cashout", "instant cash", "withdraw",
             "transfer money", "fee", "fees", "cost", "charge", "fast",
             "slow", "delay", "not able to cashout", "unable to cashout",
             "cashout issue", "cashout problem">>
      [] c = "EARNIN_CARD" ->
           <<"earnin card", "tip jar", "tips", "card", "debit", "spending",
             "tip", "jar">>
      [] c = "LIGHTNING_SPEED" ->
           <<"lightning speed", "instant", "fast transfer", "quick", "speed",
             "delay">>
      [] c = "INSIGHTS_TOOLS" ->
           <<"insights", "analytics", "financial tools", "spending", "budget",
             "tracking">>
      [] c = "BANK_CONNECTIONS" ->
           <<"bank", "account", "connect", "link", "verification", "plaid",
             "connection", "connecting">>
      [] c = "APP_UX_PERFORMANCE" ->
           <<"app", "interface", "ui", "ux", "navigation", "crash", "slow",
             "performance", "confusing">>
      [] c = "CUSTOMER_SUPPORT" ->
           <<"support", "help", "customer service", "assistance", "response",
             "customer support">>
      [] c = "SECURITY_COMPLIANCE" ->
           <<"security", "privacy", "safe", "secure", "fraud", "verification",
             "security features">>

\* len(keyword.split())
WordCount(k) ==
    CASE k \in {"not able to cashout", "not able to get"} -> 4
      [] k \in {"get the earning", "unable to cashout", "unable to get"} -> 3
      [] k \in {"bank account", "bank connection", "cash out",
                "cashout issue", "cashout problem", "customer service",
                "customer support", "didnt like", "dont like", "earnin card",
                "earnin product", "fast transfer", "financial tools",
                "instant cash", "lightning speed", "like it", "not working",
                "personal information", "security features", "sign up",
                "thank you", "tip jar", "transfer money", "wait time"} -> 2
      [] OTHER -> 1

\* base_weight, with the x2.0 and x1.5 boosts, scaled by 100
KeywordWeight(k) ==
    LET base == 20 * WordCount(k) + 30
    IN  IF k \in {"cashout", "cash out", "instant cash", "withdraw",
                  "transfer money"}
        THEN 2 * base
        ELSE IF k \in {"issue", "problem", "bug", "error", "broken",
                       "not working"}
             THEN (3 * base) \div 2
             ELSE base

\* sum of the weights of the keywords of kws that occur in the message;
\* `found` is the set of vocabulary phrases occurring in it
RawScore(kws, found) ==
    SumSeq([i \in 1..Len(kws) |->
              IF kws[i] \in found THEN KeywordWeight(kws[i]) ELSE 0])

\* the weights of the keywords of kws that occur in the message, in the order
\* of the list: the summands of `score += base_weight`
HitWeights(kws, found) ==
    LET hits == SelectSeq(kws, LAMBDA k : k \in found)
    IN  [i \in 1..Len(hits) |-> KeywordWeight(hits[i])]

\* `score / total_keywords` is computed in binary floating point (IEEE 754
\* double, round to nearest even): the weights 0.7, 0.9, 1.1, 1.4, their
\* sums and the quotient are rounded.  The sets list, for up to three
\* keywords found in a list, the <<weights, total_keywords>> for which the
\* double computed is not the double nearest to the exact quotient but the
\* one below it, the one above it, the second one above it.
RoundedDown ==
    {<<<<50, 50, 105>>, 14>>, <<<<50, 70>>, 6>>, <<<<50, 70>>, 12>>,
     <<<<50, 70>>, 13>>, <<<<50, 70, 70>>, 13>>, <<<<50, 70, 70>>, 19>>,
     <<<<50, 105>>, 14>>, <<<<50, 105, 50>>, 14>>, <<<<50, 110, 70>>, 23>>,
     <<<<70>>, 6>>, <<<<70>>, 7>>, <<<<70>>, 12>>, <<<<70>>, 13>>,
     <<<<70>>, 14>>, <<<<70>>, 23>>, <<<<70, 50>>, 6>>, <<<<70, 50>>, 12>>,
     <<<<70, 50>>, 13>>, <<<<70, 50, 70>>, 13>>, <<<<70, 50, 70>>, 19>>,
     <<<<70, 70>>, 6>>, <<<<70, 70>>, 12>>, <<<<70, 70>>, 13>>,
     <<<<70, 70>>, 14>>, <<<<70, 70>>, 23>>, <<<<70, 70, 50>>, 19>>,
     <<<<70, 70, 70>>, 12>>, <<<<70, 70, 70>>, 14>>, <<<<70, 70, 70>>, 19>>,
     <<<<90, 70, 70>>, 23>>, <<<<100, 110, 70>>, 23>>,
     <<<<100, 140, 70>>, 16>>, <<<<100, 140, 70>>, 23>>, <<<<105>>, 14>>,
     <<<<105, 50>>, 14>>, <<<<140>>, 23>>, <<<<140, 50, 70>>, 16>>,
     <<<<140, 50, 70>>, 23>>, <<<<140, 50, 90>>, 23>>, <<<<140, 70>>, 16>>,
     <<<<140, 70>>, 23>>, <<<<140, 70, 70>>, 23>>, <<<<140, 90>>, 23>>,
     <<<<140, 100, 70>>, 16>>, <<<<140, 100, 70>>, 23>>,
     <<<<140, 140>>, 23>>, <<<<140, 140, 140>>, 16>>}

RoundedUp ==
    {<<<<50, 50, 90>>, 16>>, <<<<50, 50, 90>>, 23>>, <<<<50, 90>>, 16>>,
     <<<<90>>, 16>>, <<<<90, 90, 110>>, 23>>, <<<<90, 110, 90>>, 23>>,
     <<<<100, 50, 90>>, 16>>, <<<<100, 90>>, 16>>, <<<<100, 90>>, 23>>,
     <<<<100, 100, 90>>, 16>>, <<<<100, 100, 90>>, 23>>,
     <<<<110, 90, 90>>, 23>>, <<<<110, 110, 70>>, 23>>,
     <<<<110, 110, 90>>, 23>>, <<<<140, 110, 90>>, 16>>,
     <<<<140, 140, 90>>, 23>>}

RoundedUpTwice ==
    {<<<<50, 100, 90>>, 23>>, <<<<100, 50, 90>>, 23>>}

\* the distance of the double computed for score / total_keywords from the
\* double nearest to the exact quotient, in units of the last place
FloatError(weights, total_keywords) ==
    IF <<weights, total_keywords>> \in RoundedDown THEN -1
    ELSE IF <<weights, total_keywords>> \in RoundedUp THEN 1
    ELSE IF <<weights, total_keywords>> \in RoundedUpTwice THEN 2
    ELSE 0

\* category_scores[category] = score / total_keywords as <<sum of the
\* weights scaled by 100, total_keywords, rounding error>>
CategoryScore(kws, found) ==
    <<RawScore(kws, found), Len(kws),
      FloatError(HitWeights(kws, found), Len(kws))>>

\* faulty variant: the later one of two equal scores counts as greater
ScoreGreater_or_equal(a, b) == a[1] * b[2] >= b[1] * a[2]

\* the double a is strictly greater than the double b: the exact quotients
\* decide, and the rounding errors when the quotients are equal
ScoreGreater(a, b) ==
    \/ a[1] * b[2] > b[1] * a[2]
    \/ a[1] * b[2] = b[1] * a[2] /\ a[3] > b[3]

\* the double a is below the threshold hundredths / 100 (the literals 0.02
\* and 0.1 are the doubles nearest to them)
ScoreBelow(a, hundredths) ==
    \/ a[1] < hundredths * a[2]
    \/ a[1] = hundredths * a[2] /\ a[3] < 0

\* max(category_scores, key=category_scores.get): the first maximum in the
\* iteration order of the dict
RECURSIVE ArgMax(_, _, _)
ArgMax(order, category_scores, best) ==
    IF order = <<>> THEN best
    ELSE LET c == Head(order)
         IN  IF ScoreGreater(category_scores[c], category_scores[best])
             THEN ArgMax(Tail(order), category_scores, c)
             ELSE ArgMax(Tail(order), category_scores, best)

GeneralPositive == {"love", "great", "awesome", "amazing", "perfect",
                    "excellent", "good", "thanks", "thank you"}
GeneralNegative == {"hate", "terrible", "awful", "horrible", "bad", "worst",
                    "disappointed", "frustrated"}

\* _classify_level1; `empty` is `not message` after _clean_message
classify_level1(found, empty) ==
    IF empty THEN "NON_RELEVANT"
    ELSE LET category_scores ==
                 [c \in Range(L1Order) |->
                    CategoryScore(KEYWORDS(c), found)]
             best == ArgMax(Tail(L1Order), category_scores, Head(L1Order))
         IN  \* max(category_scores.values()) < 0.02
             IF ScoreBelow(category_scores[best], 2)
             THEN IF found \cap (GeneralPositive \cup GeneralNegative)
                        # {}
                  THEN "GENERAL_SENTIMENT"
                  ELSE "NON_RELEVANT"
             ELSE best

DefaultL2(l1) ==
    CASE l1 = "PAYMENTS"            -> "CASH_OUT"
      [] l1 = "PRODUCT_FEEDBACK"    -> "APP_UX_PERFORMANCE"
      [] l1 = "TECHNICAL_ISSUES"    -> "APP_UX_PERFORMANCE"
      [] l1 = "CUSTOMER_EXPERIENCE" -> "CUSTOMER_SUPPORT"
      [] l1 = "TRUST_SECURITY"      -> "SECURITY_COMPLIANCE"
      [] l1 = "ONBOARDING"          -> "BANK_CONNECTIONS"
      [] l1 = "NOTIFICATIONS"       -> "NOTIFICATIONS_REMINDERS"
      [] OTHER                      -> "NON_RELEVANT"

\* _classify_level2
classify_level2(found, l1) ==
    IF l1 \in {"NON_RELEVANT", "GENERAL_SENTIMENT"} THEN "NON_RELEVANT"
    ELSE LET category_scores ==
                 [c \in Range(L2Order) |->
                    CategoryScore(L2_KEYWORDS(c), found)]
             best == ArgMax(Tail(L2Order), category_scores, Head(L2Order))
         IN  \* max(category_scores.values()) < 0.1
             IF ScoreBelow(category_scores[best], 10)
             THEN DefaultL2(l1)
             ELSE best

SLACK_CHANNEL_MAPPING(l2) ==
    CASE l2 \in {"CASH_OUT", "BALANCE_SHIELD"} -> "C09LBDF1MT8"
      [] l2 = "EARNIN_CARD"             -> "C09L73ZDGSF"
      [] l2 = "LIGHTNING_SPEED"         -> "C09L740CY0K"
      [] l2 = "INSIGHTS_TOOLS"          -> "C09L74151R9"
      [] l2 = "BANK_CONNECTIONS"        -> "C09LA2A5HUM"
      [] l2 = "NOTIFICATIONS_REMINDERS" -> "C09LDGARC9Y"
      [] l2 = "APP_UX_PERFORMANCE"      -> "C09LA2F4S05"
      [] l2 = "CUSTOMER_SUPPORT"        -> "C09M7Q7SC0Y"
      [] l2 = "SECURITY_COMPLIANCE"     -> "C09LSD9UG2D"
      [] OTHER                          -> ""

\* MessageClassifier.classify_message (the random ticket is left out)
classify_message(found, empty) ==
    LET l1 == classify_level1(found, empty)
        l2 == classify_level2(found, l1)
    IN  [level_1_category |-> l1,
         level_2_category |-> l2,
         slack_channel    |-> SLACK_CHANNEL_MAPPING(l2)]

\* _clean_message: lower(), strip() and the collapse of whitespace; a
\* string of spaces becomes the empty string
clean_message(message) == IF message = "blank" THEN "" ELSE message

\* min(score, 1.0) of the fraction f
MinOne(f) == IF f[1] > f[2] THEN <<1, 1>> ELSE f

\* the confidence _classify_level1 returns next to the category
level1_confidence(found, empty) ==
    IF empty THEN <<0, 10>>
    ELSE LET category_scores ==
                 [c \in Range(L1Order) |->
                    CategoryScore(KEYWORDS(c), found)]
             best == ArgMax(Tail(L1Order), category_scores, Head(L1Order))
         IN  IF ScoreBelow(category_scores[best], 2)
             THEN IF found \cap (GeneralPositive \cup GeneralNegative)
                        # {}
                  THEN <<5, 10>>
                  ELSE <<1, 10>>
             ELSE MinOne(<<RawScore(KEYWORDS(best), found),
                           100 * Len(KEYWORDS(best))>>)

\* the confidence _classify_level2 returns next to the category
level2_confidence(found, l1) ==
    IF l1 = "NON_RELEVANT" THEN <<1, 10>>
    ELSE IF l1 = "GENERAL_SENTIMENT" THEN <<3, 10>>
    ELSE LET category_scores ==
                 [c \in Range(L2Order) |->
                    CategoryScore(L2_KEYWORDS(c), found)]
             best == ArgMax(Tail(L2Order), category_scores, Head(L2Order))
         IN  IF ScoreBelow(category_scores[best], 10)
             THEN <<3, 10>>
             ELSE MinOne(<<RawScore(L2_KEYWORDS(best), found),
                           100 * Len(L2_KEYWORDS(best))>>)

\* overall_confidence = (l1_confidence + l2_confidence) / 2
overall_confidence(found, empty) ==
    LET a == level1_confidence(found, empty)
        b == level2_confidence(found, classify_level1(found, empty))
    IN  <<a[1] * b[2] + b[1] * a[2], 2 * a[2] * b[2]>>

\* MessageClassifier.classify_message with the confidence and the ticket;
\* jira_ticket is the number _generate_jira_ticket drew
Classify(message, jira_ticket) ==
    LET cleaned_message == clean_message(message)
        found == KeywordsIn(cleaned_message)
        result == classify_message(found, cleaned_message = "")
    IN  [level_1_category |-> result.level_1_category,
         level_2_category |-> result.level_2_category,
         slack_channel    |-> result.slack_channel,
         jira_ticket      |-> jira_ticket,
         confidence_score |-> overall_confidence(found, cleaned_message = "")]

(***************************************************************************)
(* EnhancedMessageClassifier (enhanced_message_classifier.py), the         *)
(* classifier of the reply system.  A confidence is the fraction <<n, d>>. *)
(***************************************************************************)
\* the texts handed to a classifier: those of the channel, one with as many
\* positive as negative words, one with a problem phrase, the empty string
\* and a string of spaces
ClassifierTexts ==
    RawTexts \cup {"mixed", "problem", "fee", "card", "", "blank"}

\* `not message`
NotMessage(message) == message = ""

classification_keywords(c) ==
    CASE c = "Payments and Cash Out" ->
           {"cash out", "cashout", "withdraw", "transfer", "money",
            "payment", "fee", "cost", "charge", "instant", "lightning speed",
            "balance"}
      [] c = "Technical Issues / Bugs" ->
           {"crash", "error", "bug", "broken", "not working", "freeze",
            "glitch", "malfunction", "technical", "issue", "problem"}
      [] c = "Trust, Security, and Transparency" ->
           {"security", "password", "exposed", "privacy", "trust", "safe",
            "secure", "hack", "breach", "data", "personal information"}
      [] c = "App UX / Performance" ->
           {"ui", "ux", "interface", "navigation", "slow", "performance",
            "design", "layout", "confusing", "difficult", "user experience"}
      [] c = "Customer Experience (CX) & Support" ->
           {"support", "help", "customer service", "service", "assistance",
            "response", "contact", "reach out", "escalate"}
      [] c = "EarnIn Card / Tip Jar" ->
           {"card", "tip jar", "tips", "earnings", "income", "daily",
            "weekly", "earning", "tips jar"}
      [] c = "Bank Connections" ->
           {"bank", "account", "connection", "linked", "verification",
            "connect", "disconnect", "banking"}
      [] c = "Notifications and Communication" ->
           {"notification", "alert", "reminder", "email", "sms", "message",
            "communication", "update", "news"}
      [] c = "Onboarding and Account Setup" ->
           {"sign up", "signup", "register", "account", "setup",
            "onboarding", "verification", "kyc", "identity"}
      [] OTHER -> {}

positive_keywords ==
    {"love", "great", "awesome", "amazing", "perfect", "excellent", "good",
     "thanks", "thank you", "wonderful", "fantastic", "brilliant",
     "outstanding", "helpful", "useful", "satisfied", "happy", "pleased",
     "impressed", "recommend", "best", "top", "exceeded", "surpassed",
     "delighted"}

negative_keywords ==
    {"hate", "terrible", "awful", "horrible", "bad", "worst", "disappointed",
     "frustrated", "angry", "annoyed", "upset", "disgusted", "displeased",
     "broken", "bug", "error", "issue", "problem", "complaint", "concern",
     "unhappy", "unsatisfied", "poor", "fail", "failed", "failure", "slow",
     "crashed", "freeze", "glitch", "malfunction", "defective"}

problem_phrases ==
    {"not working", "not getting", "not able to", "cannot", "can't",
     "unable to", "not receiving", "not processing", "not loading",
     "not responding", "not functioning", "not accessible", "not available",
     "not connecting", "not syncing", "not updating", "not downloading",
     "not uploading", "not sending", "not displaying", "not showing"}

\* faulty variant: the keywords are tallied before the problem phrases are
\* looked at
analyze_sentiment_tally_first(found, empty) ==
    IF empty THEN <<"neutral", <<0, 10>>>>
    ELSE LET positive_count == Cardinality(found \cap positive_keywords)
             negative_count == Cardinality(found \cap negative_keywords)
         IN  IF positive_count > negative_count
             THEN <<"positive",
                    <<positive_count, positive_count + negative_count>>>>
             ELSE IF negative_count > positive_count
             THEN <<"negative",
                    <<negative_count, positive_count + negative_count>>>>
             ELSE IF found \cap problem_phrases # {}
             THEN <<"negative", <<8, 10>>>>
             ELSE IF positive_count + negative_count = 0
             THEN <<"neutral", <<3, 10>>>>
             ELSE <<"neutral", <<4, 10>>>>

\* analyze_sentiment: <<sentiment, confidence>>
analyze_sentiment(found, empty) ==
    IF empty THEN <<"neutral", <<0, 10>>>>
    ELSE IF found \cap problem_phrases # {} THEN <<"negative", <<8, 10>>>>
    ELSE LET positive_count == Cardinality(found \cap positive_keywords)
             negative_count == Cardinality(found \cap negative_keywords)
         IN  IF positive_count + negative_count = 0
             THEN <<"neutral", <<3, 10>>>>
             ELSE IF positive_count > negative_count
             THEN <<"positive",
                    <<positive_count, positive_count + negative_count>>>>
             ELSE IF negative_count > positive_count
             THEN <<"negative",
                    <<negative_count, positive_count + negative_count>>>>
             ELSE <<"neutral", <<4, 10>>>>

\* the order in which _classify_level_1 enters the categories into
\* category_scores: the priority list, then the remaining one
priority_categories ==
    <<"Trust, Security, and Transparency", "Payments and Cash Out",
      "Technical Issues / Bugs", "Customer Experience (CX) & Support",
      "EarnIn Card / Tip Jar", "Bank Connections",
      "Notifications and Communication", "Onboarding and Account Setup",
      "App UX / Performance">>

\* max(category_scores, key=category_scores.get) over the categories in
\* order: the first one with the highest score
RECURSIVE MaxScore(_, _, _)
MaxScore(order, found, best) ==
    IF order = <<>> THEN best
    ELSE IF Cardinality(classification_keywords(Head(order)) \cap found)
              > Cardinality(classification_keywords(best) \cap found)
         THEN MaxScore(Tail(order), found, Head(order))
         ELSE MaxScore(Tail(order), found, best)

\* _classify_level_1
classify_level_1(found) ==
    LET best == MaxScore(Tail(priority_categories), found,
                         Head(priority_categories))
    IN  IF classification_keywords(best) \cap found # {} THEN best
        ELSE IF found \cap (positive_keywords \cup negative_keywords) # {}
        THEN "General Sentiment"
        ELSE "Non-relevant or Ambiguous"

\* _classify_level_2
classify_level_2(found, level_1_category) ==
    CASE level_1_category = "Payments and Cash Out" ->
           IF found \cap {"cash out", "cashout", "withdraw", "instant",
                          "lightning"} # {}
           THEN "Cash Out"
           ELSE IF found \cap {"transfer", "money movement", "send"} # {}
           THEN "Lightning Speed / Transfer Mechanism"
           ELSE IF found \cap {"balance", "shield"} # {}
           THEN "Balance Shield"
           ELSE "Non-relevant or Ambiguous"
      [] level_1_category = "Technical Issues / Bugs" ->
           "App UX / Performance"
      [] level_1_category = "Trust, Security, and Transparency" ->
           "Security / Compliance"
      [] level_1_category = "Customer Experience (CX) & Support" ->
           "Customer Support"
      [] level_1_category = "EarnIn Card / Tip Jar" ->
           IF found \cap {"card", "tip jar", "tips"} # {}
           THEN "EarnIn Card / Tip Jar"
           ELSE IF found \cap {"earning", "income", "daily"} # {}
           THEN "Insights & Financial Tools"
           ELSE "Non-relevant or Ambiguous"
      [] level_1_category = "Bank Connections" -> "Bank Connections"
      [] level_1_category = "Notifications and Communication" ->
           "Notifications & Reminders"
      [] level_1_category = "Onboarding and Account Setup" ->
           "Bank Connections"
      [] OTHER -> "Non-relevant or Ambiguous"

l2_to_slack_mapping(l2) ==
    CASE l2 = "Cash Out"                  -> "#help-cashout-experience"
      [] l2 = "EarnIn Card / Tip Jar"     -> "#help-earnin-card"
      [] l2 = "Lightning Speed / Transfer Mechanism" ->
                                             "#help-money-movement"
      [] l2 = "Insights & Financial Tools" -> "#help-analytics"
      [] l2 = "Bank Connections"          -> "#help-edx-accountverification"
      [] l2 = "Notifications & Reminders" -> "#help-marketing"
      [] l2 = "App UX / Performance"      -> "#help-performance-ux"
      [] l2 = "Customer Support"          -> "#help-cx"
      [] l2 = "Security / Compliance"     -> "#help-security"
      [] OTHER                            -> ""

\* faulty variant: the random number of the ticket is also used for the
\* confidence
ClassificationResult_random(l1, l2, channel, ticket, sentiment, confidence) ==
    [level_1_category |-> l1, level_2_category |-> l2,
     slack_channel |-> channel, jira_ticket |-> ticket,
     sentiment |-> sentiment, confidence |-> <<ticket % 10, 10>>]

\* ClassificationResult(...)
ClassificationResult(l1, l2, channel, ticket, sentiment, confidence) ==
    [level_1_category |-> l1, level_2_category |-> l2,
     slack_channel |-> channel, jira_ticket |-> ticket,
     sentiment |-> sentiment, confidence |-> confidence]

\* EnhancedMessageClassifier.classify_message; jira_ticket is the number
\* _generate_jira_ticket drew
EnhancedClassify(message, jira_ticket) ==
    IF NotMessage(message)
    THEN ClassificationResult("Non-relevant or Ambiguous",
                              "Non-relevant or Ambiguous", "", jira_ticket,
                              "neutral", <<0, 10>>)
    ELSE LET found == KeywordsIn(message)
             sentiment == analyze_sentiment(found, NotMessage(message))
             level_1_category == classify_level_1(found)
             level_2_category == classify_level_2(found, level_1_category)
         IN  ClassificationResult(level_1_category, level_2_category,
                                  l2_to_slack_mapping(level_2_category),
                                  jira_ticket, sentiment[1], sentiment[2])

\* the numbers random.randint(100000, 999999) can return: the two ends of
\* the range
RandomTickets == {100000, 999999}

(***************************************************************************)
(* The outside world: messages of the Slack channel and posts the Reddit   *)
(* API returns.                                                            *)
(***************************************************************************)
SlackMsg1 == [ts |-> 1, user |-> "U1", text |-> "cashout", bot_id |-> None,
              subtype |-> None]
SlackMsg2 == [ts |-> 2, user |-> "U2", text |-> "review_raw", bot_id |-> None,
              subtype |-> None]
SlackMsg3 == [ts |-> 3, user |-> "B9", text |-> "thanks", bot_id |-> "B9",
              subtype |-> "bot_message"]
SlackMsg4 == [ts |-> 4, user |-> "U3", text |-> "earnings", bot_id |-> None,
              subtype |-> None]

\* messages that meet one condition of the reply filter each: the subtype
\* bot_message without bot_id, no text, a user id that starts with B
SlackMsg5 == [ts |-> 5, user |-> "U4", text |-> "thanks", bot_id |-> None,
              subtype |-> "bot_message"]
SlackMsg6 == [ts |-> 6, user |-> "U5", text |-> "", bot_id |-> None,
              subtype |-> None]
SlackMsg7 == [ts |-> 7, user |-> "B7", text |-> "thanks", bot_id |-> None,
              subtype |-> None]

\* the messages that are posted in the channel of the reply system
ReplyChannelMessages ==
    {SlackMsg1, SlackMsg2, SlackMsg3, SlackMsg4, SlackMsg5, SlackMsg6,
     SlackMsg7}

RedditPost1 == [id |-> "p1", title |-> "thanks", selftext |-> "",
                created_utc |-> 0, saved_at |-> 0]
RedditPost2 == [id |-> "p2", title |-> "earnings", selftext |-> "",
                created_utc |-> 1, saved_at |-> 1]

(***************************************************************************)
(* The messages table.  A table is an unordered collection of rows; it is  *)
(* represented by the sequence of its rows in the order of the primary-key *)
(* index (no statement of the code reads rows without ORDER BY).  A row    *)
(* carries the columns the modelled operations read or write.  The         *)
(* messages of the model carry no rating and no personal data: the rating  *)
(* column is NULL and pii_detected is false in every row, and severity and *)
(* business_impact_score are NULL until a Feedback that was classified and *)
(* scored is saved.                                                        *)
(***************************************************************************)
Row(id, source, title, content, timestamp, sentiment, category, processed, created_at, updated_at) ==
    [id |-> id, source |-> source, title |-> title, content |-> content,
     timestamp |-> timestamp, sentiment |-> sentiment, category |-> category,
     processed |-> processed, created_at |-> created_at,
     updated_at |-> updated_at, severity |-> None,
     business_impact_score |-> <<>>]

\* SELECT id FROM messages WHERE id = ?  ...  cursor.fetchone()
RowExists(rows, id) == \E i \in 1..Len(rows) : rows[i].id = id

\* number of rows with this id
RowCount(rows, id) == Cardinality({i \in 1..Len(rows) : rows[i].id = id})

\* the position of an id in the primary-key index: the ids of the model are
\* (kind, number, name) and differ in the number, but for the Reddit ids,
\* which are ordered by their names "p1" < "p2"
KeyBefore(a, b) ==
    \/ a[2] < b[2]
    \/ a[2] = b[2] /\ ~(a[3] = "p2" /\ b[3] = "p1")

\* the table with one more row, whatever the ids already present
IndexInsert(rows, row) ==
    SelectSeq(rows, LAMBDA r : KeyBefore(r.id, row.id)) \o <<row>>
        \o SelectSeq(rows, LAMBDA r : ~KeyBefore(r.id, row.id))

\* faulty variant: the table has no primary key
SqlInsert_no_key(rows, row) == IndexInsert(rows, row)

\* INSERT INTO messages: id is TEXT PRIMARY KEY, so the statement raises
\* IntegrityError (and inserts nothing) when a row with this id exists
SqlInsert(rows, row) ==
    IF RowExists(rows, row.id) THEN rows ELSE IndexInsert(rows, row)

\* INSERT OR REPLACE INTO messages: the row with the same primary key is
\* deleted, then the new row is inserted
SqlInsertOrReplace(rows, row) ==
    IndexInsert(SelectSeq(rows, LAMBDA r : r.id # row.id), row)

\* faulty variant: ORDER BY created_at DESC
OrderByCreatedAtDesc(s) ==
    LET n == Len(s)
        perms == {f \in [1..n -> 1..n] : \A i, j \in 1..n : i # j => f[i] # f[j]}
    IN  {[i \in 1..n |-> s[f[i]]] : f \in
           {g \in perms : \A i, j \in 1..n :
                i < j => s[g[i]].created_at >= s[g[j]].created_at}}

\* the permutations of s that are in ascending `created_at` order
\* (ORDER BY created_at ASC; the order among equal keys is not specified)
OrderByCreatedAt(s) ==
    LET n == Len(s)
        perms == {f \in [1..n -> 1..n] : \A i, j \in 1..n : i # j => f[i] # f[j]}
    IN  {[i \in 1..n |-> s[f[i]]] : f \in
           {g \in perms : \A i, j \in 1..n :
                i < j => s[g[i]].created_at <= s[g[j]].created_at}}

\* faulty variant: the WHERE clause is missing, every row is selected
SelectAllRows(rows, limit) ==
    {Take(o, limit) : o \in OrderByCreatedAt(rows)}

\* SELECT ... FROM messages WHERE processed = FALSE ORDER BY created_at ASC
\* [LIMIT ?]: the possible result lists
SelectUnprocessed(rows, limit) ==
    {Take(o, limit) :
        o \in OrderByCreatedAt(SelectSeq(rows, LAMBDA r : ~r.processed))}

(***************************************************************************)
(* UnifiedFeedbackDatabase.save_feedback: update-or-insert by id.          *)
(***************************************************************************)
\* faulty variant: no lookup and no primary key, every save adds a row
save_feedback_always_insert(rows, fb) == IndexInsert(rows, fb)

save_feedback(rows, fb) ==
    IF RowExists(rows, fb.id)
    THEN [i \in 1..Len(rows) |->
            IF rows[i].id = fb.id
            THEN [rows[i] EXCEPT !.content = fb.content,
                                 !.timestamp = fb.timestamp,
                                 !.sentiment = fb.sentiment,
                                 !.category = fb.category,
                                 !.severity = fb.severity,
                                 !.business_impact_score =
                                    fb.business_impact_score,
                                 !.processed = fb.processed,
                                 !.updated_at = fb.updated_at]
            ELSE rows[i]]
    ELSE SqlInsert(rows, fb)

(***************************************************************************)
(* SlackReviewFetcher: parsing of a channel message into review data.      *)
(***************************************************************************)
\* _parse_slack_message with _parse_app_store_review, _parse_play_store_review
\* and _parse_general_slack_message
parse_slack_message(m) ==
    IF MentionsAppStore(m.text)
    THEN [id |-> <<"slack_appstore", m.ts, m.user>>, source |-> "app_store",
          content |-> StripReviewPrefixes(m.text), timestamp |-> m.ts]
    ELSE IF MentionsPlayStore(m.text)
    THEN [id |-> <<"slack_playstore", m.ts, m.user>>, source |-> "play_store",
          content |-> StripReviewPrefixes(m.text), timestamp |-> m.ts]
    ELSE [id |-> <<"slack_general", m.ts, m.user>>, source |-> "slack",
          content |-> m.text, timestamp |-> m.ts]

\* fetch_reviews_from_slack with an initialised client: the newest `limit`
\* messages of the channel, parsed; the empty list when the channel is not
\* found
fetch_reviews_from_slack(history, found, limit) ==
    IF ~found THEN <<>>
    ELSE LET h == Take(history, limit)
         IN  [i \in 1..Len(h) |-> parse_slack_message(h[i])]

\* Feedback(...) as fetch_slack_messages_unified builds it (processed and the
\* annotations take the dataclass defaults, created_at = updated_at = now)
\* followed by normalizer.normalize_feedback
NewFeedback(d, t) ==
    Row(d.id, d.source, None, CleanContent(d.content), d.timestamp,
        None, None, FALSE, t, t)

\* the loop of fetch_slack_messages_unified over the fetched messages
RECURSIVE SaveAll(_, _, _)
SaveAll(rows, data, t) ==
    IF data = <<>> THEN rows
    ELSE SaveAll(save_feedback(rows, NewFeedback(Head(data), t)),
                 Tail(data), t)

(***************************************************************************)
(* RedditEarnInMonitorUnified.save_posts_to_unified_db.                    *)
(***************************************************************************)
RedditId(post) == <<"reddit", 0, post.id>>

\* content = selftext or title
RedditContent(post) == IF post.selftext # "" THEN post.selftext ELSE post.title

RECURSIVE save_posts_to_unified_db(_, _, _)
save_posts_to_unified_db(rows, posts, t) ==
    IF posts = <<>> THEN rows
    ELSE LET post == Head(posts)
             next == IF RowExists(rows, RedditId(post))
                     THEN rows                  \* continue: skip existing
                     ELSE SqlInsert(rows,
                            Row(RedditId(post), "reddit", post.title,
                                RedditContent(post), post.created_utc,
                                None, None, FALSE, t, t))
         IN  save_posts_to_unified_db(next, Tail(posts), t)

(***************************************************************************)
(* UnifiedMessageDatabase.migrate_reddit_data and add_message.             *)
(***************************************************************************)
RECURSIVE migrate_reddit_data(_, _)
migrate_reddit_data(rows, posts) ==
    IF posts = <<>> THEN rows
    ELSE LET post == Head(posts)
         IN  migrate_reddit_data(
                 SqlInsertOrReplace(rows,
                     Row(RedditId(post), "reddit", post.title,
                         RedditContent(post), post.created_utc,
                         None, None, FALSE, post.saved_at, post.saved_at)),
                 Tail(posts))

\* message_data of an external item, as an ingestion adapter passes it:
\* without the keys 'processed', 'created_at' and 'updated_at'
MessageData(history, posts) ==
    {[id |-> parse_slack_message(history[i]).id,
      source |-> parse_slack_message(history[i]).source,
      title |-> None,
      content |-> parse_slack_message(history[i]).content,
      timestamp |-> history[i].ts] : i \in 1..Len(history)}
    \cup
    {[id |-> RedditId(posts[i]), source |-> "reddit",
      title |-> posts[i].title,
      content |-> RedditContent(posts[i]),
      timestamp |-> posts[i].created_utc] : i \in 1..Len(posts)}

\* add_message: setdefault of created_at, updated_at, processed, then
\* INSERT OR REPLACE
add_message(rows, d, t) ==
    SqlInsertOrReplace(rows,
        Row(d.id, d.source, d.title, d.content, d.timestamp,
            None, None, FALSE, t, t))

\* the ids of the messages of the model
AllIds == {d.id : d \in MessageData(
                         <<SlackMsg1, SlackMsg2, SlackMsg3, SlackMsg4>>,
                         <<RedditPost1, RedditPost2>>)}

(***************************************************************************)
(* FeedbackClassifier (feedback_mcp_server_unified.py).                    *)
(***************************************************************************)
CategoryOrder == <<"bug", "feature_request", "complaint", "praise",
                   "question", "spam">>

category_keywords(c) ==
    CASE c = "bug" -> {"bug", "error", "crash", "broken", "not working",
                       "issue", "problem"}
      [] c = "feature_request" -> {"feature", "add", "want", "need",
                                   "suggest", "request"}
      [] c = "complaint" -> {"hate", "terrible", "awful", "worst",
                             "disappointed", "angry"}
      [] c = "praise" -> {"love", "great", "awesome", "amazing", "excellent",
                          "perfect"}
      [] c = "question" -> {"how", "what", "why", "when", "where", "?"}
      [] c = "spam" -> {"buy", "sell", "promo", "discount", "click here"}

\* _classify_category: the first category one of whose keywords occurs
RECURSIVE FirstCategory(_, _)
FirstCategory(order, found) ==
    IF order = <<>> THEN "other"
    ELSE IF category_keywords(Head(order)) \cap found # {}
         THEN Head(order)
         ELSE FirstCategory(Tail(order), found)

classify_category(found) == FirstCategory(CategoryOrder, found)

\* _classify_sentiment
classify_sentiment(found) ==
    LET positive_count ==
            Cardinality(found \cap {"good", "great", "awesome", "love",
                                    "amazing", "excellent", "perfect",
                                    "wonderful"})
        negative_count ==
            Cardinality(found \cap {"bad", "terrible", "awful", "hate",
                                    "worst", "horrible", "disappointed",
                                    "angry"})
    IN  IF positive_count > negative_count THEN "positive"
        ELSE IF negative_count > positive_count THEN "negative"
        ELSE "neutral"

(***************************************************************************)
(* FeedbackNormalizer (feedback_mcp_server_unified.py) on texts that may   *)
(* hold personal data.  Such a text is a sequence of tokens [c, n]: a run  *)
(* of n digits (c = "d"), a run of n letters ("a"), one hyphen, dot, space *)
(* or at-sign, one character outside [\w\s.,!?\-@#] ("("), or one of the   *)
(* replacement texts.  Neighbouring runs of one kind are one run.          *)
(***************************************************************************)
Tok(c, n) == [c |-> c, n |-> n]

\* the token at position i; past either end, a token that is no word
At(s, i) == IF i \in 1..Len(s) THEN s[i] ELSE Tok("$", 0)

\* \w
IsWord(t) == t.c \in {"d", "a"}

\* \b between the tokens i - 1 and i
Boundary(s, i) == IsWord(At(s, i - 1)) # IsWord(At(s, i))

\* runs of one kind that have become neighbours are one run
RECURSIVE Join(_)
Join(s) ==
    IF Len(s) < 2 THEN s
    ELSE IF s[1].c = s[2].c /\ IsWord(s[1])
         THEN Join(<<Tok(s[1].c, s[1].n + s[2].n)>> \o SubSeq(s, 3, Len(s)))
         ELSE <<s[1]>> \o Join(Tail(s))

\* content.strip()
RECURSIVE Strip(_)
Strip(s) ==
    IF s = <<>> THEN s
    ELSE IF s[1].c = " " THEN Strip(Tail(s))
    ELSE IF s[Len(s)].c = " " THEN Strip(SubSeq(s, 1, Len(s) - 1))
    ELSE s

\* re.sub(r'\s+', ' ', ...)
RECURSIVE Collapse(_)
Collapse(s) ==
    IF Len(s) < 2 THEN s
    ELSE IF s[1].c = " " /\ s[2].c = " " THEN Collapse(Tail(s))
    ELSE <<s[1]>> \o Collapse(Tail(s))

\* _clean_content: the whitespace is collapsed first, the characters outside
\* [\w\s.,!?\-@#] are removed after that
clean_content(s) ==
    Join(SelectSeq(Collapse(Strip(s)), LAMBDA t : t.c # "("))

\* \b\d{3}[-.]?\d{3}[-.]?\d{4}\b from token i: the last token of the match,
\* 0 without a match
PhoneEnd(s, i) ==
    LET sep(k) == At(s, k).c \in {"-", "."}
        run(k, n) == At(s, k).c = "d" /\ At(s, k).n = n
        end == IF run(i, 10) THEN i
               ELSE IF run(i, 3) /\ sep(i + 1) /\ run(i + 2, 7) THEN i + 2
               ELSE IF run(i, 6) /\ sep(i + 1) /\ run(i + 2, 4) THEN i + 2
               ELSE IF /\ run(i, 3) /\ sep(i + 1) /\ run(i + 2, 3)
                       /\ sep(i + 3) /\ run(i + 4, 4) THEN i + 4
               ELSE 0
    IN  IF end > 0 /\ Boundary(s, i) /\ Boundary(s, end + 1) THEN end ELSE 0

\* \d{4}[-\s]?\d{4}[-\s]?\d{4}[-\s]?\d{4} from token i with `need` digits
\* to go
RECURSIVE CardRuns(_, _, _)
CardRuns(s, i, need) ==
    IF At(s, i).c # "d" \/ At(s, i).n % 4 # 0 \/ At(s, i).n > need THEN 0
    ELSE IF At(s, i).n = need THEN i
    ELSE IF At(s, i + 1).c \in {"-", " "}
         THEN CardRuns(s, i + 2, need - At(s, i).n)
         ELSE 0

\* \b\d{4}[-\s]?\d{4}[-\s]?\d{4}[-\s]?\d{4}\b from token i
CardEnd(s, i) ==
    LET end == CardRuns(s, i, 16)
    IN  IF end > 0 /\ Boundary(s, i) /\ Boundary(s, end + 1) THEN end ELSE 0

\* the first token from i on that is not of [A-Za-z0-9.-] (the % + and _ of
\* the local part do not occur in the texts of the model)
RECURSIVE PastPart(_, _)
PastPart(s, i) ==
    IF At(s, i).c \in {"d", "a", ".", "-"} THEN PastPart(s, i + 1) ELSE i

\* \.[A-Z|a-z]{2,}\b ending the domain: the last letter run of at least two
\* letters in the tokens from..e that follows a dot and ends at a \b
RECURSIVE LastTld(_, _, _)
LastTld(s, from, e) ==
    IF e < from + 2 THEN 0
    ELSE IF /\ s[e].c = "a" /\ s[e].n >= 2 /\ s[e - 1].c = "."
            /\ Boundary(s, e + 1)
         THEN e
         ELSE LastTld(s, from, e - 1)

\* \b[A-Za-z0-9._%+-]+@[A-Za-z0-9.-]+\.[A-Z|a-z]{2,}\b from token i
EmailEnd(s, i) ==
    LET at == PastPart(s, i)
    IN  IF Boundary(s, i) /\ at > i /\ At(s, at).c = "@"
        THEN LastTld(s, at + 1, PastPart(s, at + 1) - 1)
        ELSE 0

\* the match of one of the three patterns from token i
MatchEnd(pattern, s, i) ==
    CASE pattern = "[EMAIL]" -> EmailEnd(s, i)
      [] pattern = "[PHONE]" -> PhoneEnd(s, i)
      [] pattern = "[CARD]"  -> CardEnd(s, i)

\* re.search(pattern, content)
Search(pattern, s) == \E i \in 1..Len(s) : MatchEnd(pattern, s, i) > 0

\* re.sub(pattern, replacement, content): every match from the left, the
\* search going on behind the match
RECURSIVE Sub(_, _, _)
Sub(pattern, s, i) ==
    IF i > Len(s) THEN <<>>
    ELSE IF MatchEnd(pattern, s, i) > 0
         THEN <<Tok(pattern, 1)>> \o Sub(pattern, s, MatchEnd(pattern, s, i) + 1)
         ELSE <<s[i]>> \o Sub(pattern, s, i + 1)

\* _detect_pii
detect_pii(s) ==
    Search("[EMAIL]", s) \/ Search("[PHONE]", s) \/ Search("[CARD]", s)

\* _strip_pii: the addresses, then the phone numbers, then the card numbers
strip_pii(s) ==
    Sub("[CARD]", Sub("[PHONE]", Sub("[EMAIL]", s, 1), 1), 1)

\* normalize_feedback: the content and pii_detected of the feedback
normalize_feedback(s) ==
    LET content == clean_content(s)
    IN  IF detect_pii(content)
        THEN [content |-> strip_pii(content), pii_detected |-> TRUE]
        ELSE [content |-> content, pii_detected |-> FALSE]

\* _classify_severity: the additive severity score; a rating is <<>> for
\* None and <<r>> for the integer r
severity_score(rating, sentiment, category, pii_detected) ==
    (IF rating = <<>> THEN 0
     ELSE IF rating[1] <= 2 THEN 3
     ELSE IF rating[1] = 3 THEN 1
     ELSE 0)
    + (IF sentiment = "negative" THEN 2
       ELSE IF sentiment = "positive" THEN -1
       ELSE 0)
    + (IF category = "bug" THEN 2
       ELSE IF category = "complaint" THEN 1
       ELSE 0)
    + (IF pii_detected THEN 1 ELSE 0)

\* faulty variant: a negative severity score falls into no tier
severity_tier_unbucketed(score) ==
    IF score >= 4 THEN "critical"
    ELSE IF score >= 2 THEN "high"
    ELSE IF score >= 1 THEN "medium"
    ELSE IF score >= 0 THEN "low"
    ELSE "none"

\* _classify_severity: the tier of a severity score
severity_tier(score) ==
    IF score >= 4 THEN "critical"
    ELSE IF score >= 2 THEN "high"
    ELSE IF score >= 1 THEN "medium"
    ELSE "low"

\* _classify_severity
classify_severity(rating, sentiment, category, pii_detected) ==
    severity_tier(severity_score(rating, sentiment, category, pii_detected))

\* score_feedback before the clamp, in tenths: (5 - rating) * 0.2 is
\* (5 - rating) * 2
impact_sum(rating, sentiment, category, severity, pii_detected) ==
    (IF rating = <<>> THEN 0 ELSE (5 - rating[1]) * 2)
    + (IF sentiment = "negative" THEN 3
       ELSE IF sentiment = "positive" THEN -1
       ELSE 0)
    + (IF category = "bug" THEN 4
       ELSE IF category = "complaint" THEN 3
       ELSE IF category = "feature_request" THEN 1
       ELSE 0)
    + (IF severity = "critical" THEN 5
       ELSE IF severity = "high" THEN 3
       ELSE IF severity = "medium" THEN 1
       ELSE 0)
    + (IF pii_detected THEN 2 ELSE 0)

\* faulty variant: only the upper end is clamped
clamp_upper_only(score) == Min(10, score)

\* min(1.0, max(0.0, score)), in tenths
clamp(score) == Min(10, IF score < 0 THEN 0 ELSE score)

\* score_feedback: business_impact_score in tenths
business_impact_score(rating, sentiment, category, severity, pii_detected) ==
    clamp(impact_sum(rating, sentiment, category, severity, pii_detected))

\* classify_feedback and score_feedback of a Feedback of the store (no
\* rating, pii_detected false)
Annotated(fb) ==
    LET category == classify_category(KeywordsIn(fb.content))
        sentiment == classify_sentiment(KeywordsIn(fb.content))
        severity == classify_severity(<<>>, sentiment, category, FALSE)
    IN  [fb EXCEPT
           !.category = category,
           !.sentiment = sentiment,
           !.severity = severity,
           !.business_impact_score =
              <<business_impact_score(<<>>, sentiment, category, severity,
                                      FALSE)>>]

\* the body of the loop of process_feedback_queue_unified: classify_feedback,
\* score_feedback, processed = True, updated_at = now, save_feedback
RECURSIVE ProcessQueue(_, _, _)
ProcessQueue(rows, todo, t) ==
    IF todo = <<>> THEN rows
    ELSE LET done == [Annotated(Head(todo)) EXCEPT
                        !.processed = TRUE,
                        !.updated_at = t]
         IN  ProcessQueue(save_feedback(rows, done), Tail(todo), t)

(***************************************************************************)
(* SlackReviewFetcher.auto_process_new_reviews: incremental polling of the *)
(* review channel.  The Slack client is initialised and the channel is     *)
(* found.                                                                  *)
(***************************************************************************)
\* get_last_processed_timestamp: SELECT timestamp FROM messages WHERE
\* source = 'slack' ORDER BY timestamp DESC LIMIT 1; <<>> stands for None
\* (no such row), <<t>> for the timestamp t
get_last_processed_timestamp(rows) ==
    LET stamps == {r.timestamp : r \in {x \in Range(rows) : x.source = "slack"}}
    IN  IF stamps = {} THEN <<>>
        ELSE <<CHOOSE t \in stamps : \A u \in stamps : u <= t>>

\* fetch_new_slack_messages: conversations_history with oldest = the last
\* processed timestamp (messages after it), all messages without one
fetch_new_slack_messages(history, rows) ==
    LET last_timestamp == get_last_processed_timestamp(rows)
        listed == IF last_timestamp = <<>> THEN history
                  ELSE SelectSeq(history,
                                 LAMBDA m : m.ts > last_timestamp[1])
    IN  [i \in 1..Len(listed) |-> parse_slack_message(listed[i])]

\* the reviews auto_process_new_reviews goes on to save: the new messages,
\* or, when there is none, the full fetch without the ids already stored
NewReviews(history, rows) ==
    LET new_reviews == fetch_new_slack_messages(history, rows)
    IN  IF new_reviews # <<>> THEN new_reviews
        ELSE SelectSeq(fetch_reviews_from_slack(history, TRUE, NoLimit),
                       LAMBDA d : ~RowExists(rows, d.id))

\* Feedback(...) as auto_process_new_reviews builds it, normalized,
\* classified, scored, with processed = True
AutoFeedback(d, t) ==
    Annotated(Row(d.id, d.source, None, CleanContent(d.content),
                  d.timestamp, None, None, TRUE, t, t))

\* the loop of auto_process_new_reviews over new_reviews
RECURSIVE SaveAllProcessed(_, _, _)
SaveAllProcessed(rows, data, t) ==
    IF data = <<>> THEN rows
    ELSE SaveAllProcessed(save_feedback(rows, AutoFeedback(Head(data), t)),
                          Tail(data), t)

\* auto_process_new_reviews: the store after the run and the returned
\* processed_count (save_feedback returns True for an insert and an update)
auto_process_new_reviews(rows, history, t) ==
    LET new_reviews == NewReviews(history, rows)
    IN  [rows  |-> SaveAllProcessed(rows, new_reviews, t),
         count |-> Len(new_reviews)]

(***************************************************************************)
(* MessageProcessor (message_processor.py).                                *)
(***************************************************************************)
\* the texts a stored title or content can be
Texts == RawTexts \cup {CleanContent(t) : t \in RawTexts}
                  \cup {StripReviewPrefixes(t) : t \in RawTexts} \cup {""}

\* what the classifier reads of a record: the vocabulary phrases in
\* f"{title} {content}" (no phrase spans the join in the texts of the model)
\* and whether that text is empty
RecordInput(title, content) ==
    <<(IF title \in {None, ""} THEN {} ELSE KeywordsIn(title))
         \cup KeywordsIn(content),
      title \in {None, ""} /\ content = "">>

\* MessageClassifier.classify_message tabulated on the records of the model
Classifications ==
    [in \in {RecordInput(t, c) : t \in Texts \cup {None}, c \in Texts} |->
        classify_message(in[1], in[2])]

\* classify_message of MessageProcessor: the title and the content joined
ClassifyRecord(message) ==
    Classifications[RecordInput(message.title, message.content)]

\* faulty variant: the UPDATE has no WHERE and writes processed = (id = ?)
\* to every row
mark_message_processed_no_where(rows, message_id, classification, t) ==
    [i \in 1..Len(rows) |->
        [rows[i] EXCEPT !.processed = (rows[i].id = message_id),
                        !.updated_at = t]]

\* mark_message_processed: UPDATE messages SET processed = TRUE, category,
\* sentiment, updated_at WHERE id = ?
mark_message_processed(rows, message_id, classification, t) ==
    [i \in 1..Len(rows) |->
        IF rows[i].id = message_id
        THEN [rows[i] EXCEPT !.processed = TRUE,
                             !.category = classification.level_1_category,
                             !.sentiment = "neutral",
                             !.updated_at = t]
        ELSE rows[i]]

\* faulty variant: the poster is used without the test for None
ShouldPost_channel_only(poster, classification) ==
    classification.slack_channel # ""

\* the condition under which process_single_message posts to Slack
ShouldPost(poster, classification) ==
    poster /\ classification.slack_channel # ""

\* the statistics a processing cycle returns for an empty batch
EmptyStats == [total |-> 0, successful |-> 0, failed |-> 0, skipped |-> 0,
               errors |-> <<>>]

(***************************************************************************)
(* State.                                                                  *)
(***************************************************************************)
VARIABLES
    messages,           \* the rows of the messages table
    now,                \* datetime.now()
    slack_history,      \* the messages of the all-feedforward channel
    reddit_posts,       \* the posts the Reddit search returns
    batch_sizes,        \* the batch sizes the runner passes to a cycle
    slack_poster,       \* MessageProcessor.slack_poster is not None
    processed_count,    \* MessageProcessor.processed_count
    error_count,        \* MessageProcessor.error_count
    pc,                 \* "idle", "batch" (in process_batch), "done"
    batch_size,         \* the batch_size argument of the running cycle
    batch,              \* the messages process_batch has still to handle
    fetched,            \* what get_unprocessed_messages returned
    handled,            \* ids process_batch has handled, in order
    stats,              \* the stats dictionary of process_batch
    post_attempts,      \* id -> calls of post_message for it (saturating)
    post_success,       \* id -> successful posts for it (saturating)
    processed_messages, \* SlackReplySystem.processed_messages
    loaded,             \* what load_processed_messages read at construction
    processed_file,     \* the lines of processed_messages.txt
    rpc,                \* "none", "ready", "run" (in process_recent_messages)
    reply_queue,        \* the messages process_recent_messages has to handle
    replies,            \* ts -> replies posted in its thread (saturating)
    reply_requests,     \* ts -> the reply texts chat_postMessage was called
                        \* with for its thread, whatever the call returned
    last_reply,         \* what the last process_message call returned:
                        \* <<>> for None, else <<ReplyResult>>
    initial_count,      \* test_deduplication: rows before the first run
    counts,             \* test_deduplication: <<count1, count2>> so far
    last_processed_timestamp,   \* of the SlackReviewFetcher of
                        \* feedback_mcp_server.py: <<>> for None, else <<ts>>
    auto_process_enabled,       \* AUTO_PROCESS_REVIEWS is "true"
    feedbacks,          \* the rows of the feedbacks table of that server
    pipeline_replied,   \* the native ts of the channel messages a reply was
                        \* posted for by process_single_message_with_reply
    db_exists,          \* os.path.exists("unified_messages.db")
    bot_token,          \* SLACK_BOT_TOKEN is set
    client,             \* slack_fetcher.client is not None
    running,            \* UnifiedMCPMonitorUpdated.running
    handler,            \* the handler installed for SIGINT and SIGTERM
    mpc,                \* where the monitor process is in main_loop
    status,             \* service -> MonitorStatus.status
    wkind,              \* concurrent ingestion: the adapter both runs are of
    wbatch,             \* run -> the rows it was given to save
    wtodo,              \* run -> the rows it has still to save
    wpc,                \* run -> "select", "write", "commit", "done"
    wfound,             \* run -> result of its last existence check
    wview,              \* run -> the table as its open transaction sees it
    wlock,              \* the run that holds the write lock, 0 for none
    wchecked,           \* run -> ids it has run the existence check for
    wfailed,            \* run -> the errors it caught and logged
    calls,              \* the classify_message calls made so far, each with
                        \* the classifier, the message and the result
    raw_content,        \* the text of a Feedback as it was constructed
    nfeedback,          \* the content and pii_detected of that Feedback
    npc,                \* "new", and "normalized" after normalize_feedback
    feedback,           \* a Feedback read from the queue: content, rating,
                        \* pii_detected and the annotations
    fpc                 \* "new", "classified", "scored"

worldVars == <<slack_history, reddit_posts, batch_sizes>>
storeVars == <<messages, now>>
procVars  == <<slack_poster, processed_count, error_count, pc, batch_size,
               batch, fetched, handled, stats, post_attempts, post_success>>
replyVars == <<processed_messages, loaded, processed_file, rpc, reply_queue,
               replies, reply_requests, last_reply>>
watermarkVars == <<last_processed_timestamp, auto_process_enabled, feedbacks>>
enhancedVars == <<pipeline_replied>>
fetcherVars == <<initial_count, counts, watermarkVars, enhancedVars>>
monitorVars == <<db_exists, bot_token, client, running, handler, mpc, status>>
writerVars == <<wkind, wbatch, wtodo, wpc, wfound, wview, wlock, wchecked,
                wfailed>>
classifierVars == <<calls>>
feedbackVars == <<raw_content, nfeedback, npc, feedback, fpc>>
serviceVars == <<fetcherVars, monitorVars, writerVars, classifierVars,
                 feedbackVars>>
vars == <<worldVars, storeVars, procVars, replyVars, serviceVars>>

\* the native timestamps of the channel messages of the model
SlackTs == {m.ts : m \in ReplyChannelMessages}

\* the batch sizes a cycle may be run with
BatchSizes == (1..MaxBatch) \cup {NoLimit}

\* Feedback(...) with the defaults of the dataclass: no annotations
Feedback(content, rating, pii_detected) ==
    [content |-> content, rating |-> rating, category |-> None,
     sentiment |-> None, severity |-> None, business_impact_score |-> <<>>,
     pii_detected |-> pii_detected]

\* no Feedback is being normalized, classified or scored
NoFeedbackRun ==
    /\ raw_content = <<>>
    /\ nfeedback = [content |-> <<>>, pii_detected |-> FALSE]
    /\ npc = "none"
    /\ feedback = Feedback("", <<>>, FALSE)
    /\ fpc = "none"

\* no processor and no reply system exist, nothing was posted or replied
NothingRun ==
    /\ slack_poster = FALSE
    /\ processed_count = 0
    /\ error_count = 0
    /\ pc = "idle"
    /\ batch_size = NoLimit
    /\ batch = <<>>
    /\ fetched = <<>>
    /\ handled = <<>>
    /\ stats = EmptyStats
    /\ post_attempts = [id \in AllIds |-> 0]
    /\ post_success = [id \in AllIds |-> 0]
    /\ processed_messages = {}
    /\ loaded = {}
    /\ processed_file = <<>>
    /\ rpc = "none"
    /\ reply_queue = <<>>
    /\ replies = [ts \in SlackTs |-> 0]
    /\ reply_requests = [ts \in SlackTs |-> {}]
    /\ last_reply = <<>>
    /\ calls = <<>>
    /\ initial_count = 0
    /\ counts = <<>>
    /\ last_processed_timestamp = <<>>
    /\ auto_process_enabled = TRUE
    /\ feedbacks = {}
    /\ pipeline_replied = {}

\* the services UnifiedMCPMonitorUpdated.__init__ registers
Services == {"feedback-management-unified", "reddit-mcp-unified",
             "slack-integration-unified", "message-processor",
             "slack-reply-system"}

\* no monitor process exists; the database file and the token are there
NoMonitor ==
    /\ db_exists = TRUE
    /\ bot_token = TRUE
    /\ client = TRUE
    /\ running = FALSE
    /\ handler = "default"
    /\ mpc = "none"
    /\ status = [s \in Services |-> "stopped"]

\* the two ingestion runs that may overlap
Writers == {1, 2}

\* no ingestion run is open
NoWriters ==
    /\ wkind = "none"
    /\ wbatch = [w \in Writers |-> <<>>]
    /\ wtodo = [w \in Writers |-> <<>>]
    /\ wpc = [w \in Writers |-> "done"]
    /\ wfound = [w \in Writers |-> FALSE]
    /\ wview = [w \in Writers |-> <<>>]
    /\ wlock = 0
    /\ wchecked = [w \in Writers |-> <<>>]
    /\ wfailed = [w \in Writers |-> <<>>]

\* the state before anything has run, up to the world
InitState ==
    /\ messages = <<>>
    /\ now = 0
    /\ NothingRun
    /\ NoFeedbackRun
    /\ NoMonitor
    /\ NoWriters

Init ==
    /\ InitState
    /\ slack_history = <<SlackMsg2, SlackMsg1>>
    /\ reddit_posts = <<RedditPost1>>
    /\ batch_sizes = BatchSizes

(***************************************************************************)
(* Time.                                                                   *)
(***************************************************************************)
Tick ==
    /\ now < MaxClock
    /\ now' = now + 1
    /\ UNCHANGED <<messages, worldVars, procVars, replyVars, serviceVars>>

(***************************************************************************)
(* Ingestion adapters.  They run between the steps of a pipeline run       *)
(* (single worker).                                                        *)
(***************************************************************************)
\* MCP tool fetch_slack_messages_unified(limit)
FetchSlackMessagesUnified ==
    /\ pc = "idle"
    /\ \E found \in BOOLEAN, limit \in 1..Len(slack_history) :
          messages' = SaveAll(messages,
                        fetch_reviews_from_slack(slack_history, found, limit),
                        now)
    /\ UNCHANGED <<now, worldVars, procVars, replyVars, serviceVars>>

\* RedditEarnInMonitorUnified.save_posts_to_unified_db(posts)
SavePostsToUnifiedDb ==
    /\ pc = "idle"
    /\ messages' = save_posts_to_unified_db(messages, reddit_posts, now)
    /\ UNCHANGED <<now, worldVars, procVars, replyVars, serviceVars>>

\* UnifiedMessageDatabase.migrate_reddit_data()
MigrateRedditData ==
    /\ pc = "idle"
    /\ messages' = migrate_reddit_data(messages, reddit_posts)
    /\ UNCHANGED <<now, worldVars, procVars, replyVars, serviceVars>>

\* UnifiedMessageDatabase.add_message(message_data)
AddMessage ==
    /\ pc = "idle"
    /\ \E d \in MessageData(slack_history, reddit_posts) :
          messages' = add_message(messages, d, now)
    /\ UNCHANGED <<now, worldVars, procVars, replyVars, serviceVars>>

(***************************************************************************)
(* The Processing Pipeline: MessageProcessor.                              *)
(***************************************************************************)
\* MessageProcessor(db_path) followed by run_processing_cycle(batch_size) up
\* to the loop of process_batch: __init__ sets the poster (None when
\* SlackPoster() raises) and the counters, get_unprocessed_messages reads the
\* batch
RunProcessingCycle ==
    /\ pc = "idle"
    /\ slack_poster' \in BOOLEAN
    /\ processed_count' = 0
    /\ error_count' = 0
    /\ \E n \in batch_sizes :
       \E ms \in SelectUnprocessed(messages, n) :
          /\ batch_size' = n
          /\ fetched' = ms
          /\ batch' = ms
          /\ stats' = [EmptyStats EXCEPT !.total = Len(ms)]
          /\ pc' = IF ms = <<>> THEN "done" ELSE "batch"
    /\ handled' = <<>>
    /\ UNCHANGED <<storeVars, worldVars, post_attempts, post_success,
                   replyVars, serviceVars>>

\* faulty variant: a failed message ends the loop
AfterMessage_abort(rest, success) ==
    IF rest = <<>> \/ ~success THEN "done" ELSE "batch"

\* where process_batch is after one message: `for message in messages`
\* goes on with the next one whatever the result was, and returns after the
\* last one
AfterMessage(rest, success) == IF rest = <<>> THEN "done" ELSE "batch"

\* faulty variant: a failure is counted without an entry in the errors list
Counted_no_error_entry(st, message_id, success) ==
    IF success
    THEN [st EXCEPT !.successful = @ + 1]
    ELSE [st EXCEPT !.failed = @ + 1]

\* the stats dictionary of process_batch after one message: one more
\* success, or one more failure with its entry in the errors list
Counted(st, message_id, success) ==
    IF success
    THEN [st EXCEPT !.successful = @ + 1]
    ELSE [st EXCEPT !.failed = @ + 1,
                    !.errors = Append(@, message_id)]

\* one iteration of the loop of process_batch: process_single_message for
\* the next message of the batch and the bookkeeping of its result
ProcessSingleMessage ==
    /\ pc = "batch"
    /\ \E ok \in BOOLEAN :                 \* PostResult.success, if posted
       LET message == Head(batch)
           classification == ClassifyRecord(message)
           posts == ShouldPost(slack_poster, classification)
           \* a failed post returns (False, "Slack post failed: ...") before
           \* mark_message_processed is reached
           success == ~posts \/ ok
       IN  /\ posts \/ ok
           /\ post_attempts' =
                IF posts
                THEN [post_attempts EXCEPT
                        ![message.id] = Min(@ + 1, MaxPosts)]
                ELSE post_attempts
           /\ post_success' =
                IF posts /\ ok
                THEN [post_success EXCEPT
                        ![message.id] = Min(@ + 1, MaxPosts)]
                ELSE post_success
           /\ messages' =
                IF success
                THEN mark_message_processed(messages, message.id,
                                            classification, now)
                ELSE messages
           /\ stats' = Counted(stats, message.id, success)
           /\ processed_count' =
                IF success THEN processed_count + 1 ELSE processed_count
           /\ error_count' =
                IF success THEN error_count ELSE error_count + 1
           /\ handled' = Append(handled, message.id)
           /\ batch' = Tail(batch)
           /\ pc' = AfterMessage(Tail(batch), success)
    /\ UNCHANGED <<now, worldVars, slack_poster, batch_size, fetched,
                   replyVars, serviceVars>>

\* run_processing_cycle returns the stats and the caller closes or drops
\* the processor
Close ==
    /\ pc = "done"
    /\ pc' = "idle"
    /\ batch_size' = NoLimit
    /\ slack_poster' = FALSE
    /\ processed_count' = 0
    /\ error_count' = 0
    /\ batch' = <<>>
    /\ fetched' = <<>>
    /\ handled' = <<>>
    /\ stats' = EmptyStats
    /\ UNCHANGED <<storeVars, worldVars, post_attempts, post_success,
                   replyVars, serviceVars>>

(***************************************************************************)
(* The Processing Pipeline: MCP tool process_feedback_queue_unified.       *)
(***************************************************************************)
ProcessFeedbackQueueUnified ==
    /\ pc = "idle"
    /\ \E n \in BatchSizes \ {NoLimit} :
       \E unprocessed \in SelectUnprocessed(messages, NoLimit) :
          messages' = ProcessQueue(messages, Take(unprocessed, n), now)
    /\ UNCHANGED <<now, worldVars, procVars, replyVars, serviceVars>>

Ingest ==
    \/ FetchSlackMessagesUnified
    \/ SavePostsToUnifiedDb
    \/ MigrateRedditData
    \/ AddMessage

Pipeline ==
    \/ RunProcessingCycle
    \/ ProcessSingleMessage
    \/ Close
    \/ ProcessFeedbackQueueUnified

Next == Tick \/ Ingest \/ Pipeline

Spec == Init /\ [][Next]_vars

(***************************************************************************)
(* The Slack reply subsystem: SlackReplySystem (slack_reply_system.py).    *)
(***************************************************************************)
\* faulty variant: the log is not read
load_nothing(file) == {}

\* load_processed_messages: the non-empty lines of processed_messages.txt
load_processed_messages(file) == Range(file)

\* save_processed_message: append one line to processed_messages.txt
save_processed_message(file, message_ts) == Append(file, message_ts)

\* user.startswith("B") on the users of the model
StartsWithB(user) == user \in {"B9", "B7"}

\* faulty variant: the replied-set is not consulted
should_reply_ignoring_processed(message, processed) ==
    /\ message.bot_id = None
    /\ message.subtype # "bot_message"
    /\ message.text # ""
    /\ ~StartsWithB(message.user)

\* faulty variant: only the replied-set and the text are looked at
should_reply_to_bots(message, processed) ==
    /\ message.ts \notin processed
    /\ message.text # ""

\* should_reply_to_message
should_reply_to_message(message, processed) ==
    /\ message.ts \notin processed
    /\ message.bot_id = None
    /\ message.subtype # "bot_message"
    /\ message.text # ""
    /\ ~StartsWithB(message.user)

\* faulty variant: the timestamp is added whatever post_reply returned
add_processed_always(processed, message_ts, success) ==
    processed \cup {message_ts}

\* the update of the in-memory replied-set after post_reply returned
\* result: processed_messages.add(message_ts) on success
add_processed(processed, message_ts, success) ==
    IF success THEN processed \cup {message_ts} ELSE processed

\* the update of the log after post_reply returned result
log_processed(file, message_ts, success) ==
    IF success THEN save_processed_message(file, message_ts) ELSE file

\* SlackReplySystem(): a new instance (a process start, or one cycle of
\* check_slack_reply_system) loads the replied-set from the log; what the
\* previous instance held in memory is gone
NewSlackReplySystem ==
    /\ processed_messages' = load_processed_messages(processed_file)
    /\ loaded' = load_processed_messages(processed_file)
    /\ rpc' = "ready"
    /\ reply_queue' = <<>>
    /\ last_reply' = <<>>
    /\ UNCHANGED <<processed_file, replies, reply_requests, worldVars,
                   storeVars, procVars, serviceVars>>

\* what stands at a place that holds no ticket; a ticket k there is <<k>>
NoTicket == <<>>

\* the reply templates of SlackReplySystem.__init__; logged_as and browse
\* are the values at the two places of {jira_ticket}, in the sentence and in
\* the tracking URL https://jira.example.com/browse/{jira_ticket}
positive_reply ==
    [text |-> "Thank you for your kind words! I'm glad you found our app helpful and appreciate your feedback!",
     logged_as |-> NoTicket, browse |-> NoTicket]

neutral_reply ==
    [text |-> "Thank you for your feedback! We appreciate you taking the time to share your thoughts with us.",
     logged_as |-> NoTicket, browse |-> NoTicket]

\* negative_reply_template.format(jira_ticket=jira_ticket)
negative_reply_template(jira_ticket) ==
    [text |-> "Thank you for your feedback! We're a customer-centric organization and truly appreciate you sharing your concern. We've logged it as {jira_ticket}, and our team is actively working on it. You can track your ticket's progress here: https://jira.example.com/browse/{jira_ticket}.",
     logged_as |-> <<jira_ticket>>, browse |-> <<jira_ticket>>]

\* the reply text process_message chooses for a classification
ReplyText(classification) ==
    IF classification.sentiment = "positive" THEN positive_reply
    ELSE IF classification.sentiment = "negative"
    THEN negative_reply_template(classification.jira_ticket)
    ELSE neutral_reply

\* JiraTicketGenerator.get_ticket_for_message: the md5 prefix
\* int(hashlib.md5(message_id.encode()).hexdigest()[:6], 16) of the message
\* ids "1" (c4ca42), "2" (c81e72), "3" (eccbc8), "4" (a87ff6), "976"
\* (9c0180) and "1698" (9fe97f)
get_ticket_for_message(message_id) ==
    LET hash_value == CASE message_id = 1 -> 12896834
                        [] message_id = 2 -> 13114994
                        [] message_id = 3 -> 15518664
                        [] message_id = 4 -> 11042806
                        [] message_id = 976 -> 10224000
                        [] message_id = 1698 -> 10479999
    IN  613400 + (hash_value % 1000)

\* process_recent_messages up to its loop: validate_channel_access and
\* fetch_recent_messages, either of which may fail
ProcessRecentMessages ==
    /\ rpc = "ready"
    /\ \E ok \in BOOLEAN :
          /\ reply_queue' = IF ok THEN slack_history ELSE <<>>
          /\ rpc' = IF ok /\ slack_history # <<>> THEN "run" ELSE "ready"
    /\ last_reply' = <<>>
    /\ UNCHANGED <<processed_messages, loaded, processed_file, replies,
                   reply_requests, worldVars, storeVars, procVars,
                   serviceVars>>

\* one iteration of the loop of process_recent_messages: process_message
ProcessMessage ==
    /\ rpc = "run"
    /\ LET message == Head(reply_queue)
       IN  IF should_reply_to_message(message, processed_messages)
           THEN \E jira_ticket \in RandomTickets, success \in BOOLEAN :
                  \* the number _generate_jira_ticket draws and the result
                  \* of post_reply
                  /\ reply_requests' =
                       [reply_requests EXCEPT ![message.ts] =
                          @ \cup {ReplyText(EnhancedClassify(message.text,
                                                             jira_ticket))}]
                  /\ replies' =
                       IF success
                       THEN [replies EXCEPT ![message.ts] = Min(@ + 1, MaxPosts)]
                       ELSE replies
                  /\ processed_messages' =
                       add_processed(processed_messages, message.ts, success)
                  /\ processed_file' =
                       log_processed(processed_file, message.ts, success)
                  /\ last_reply' = <<[original_message_ts |-> message.ts,
                                      success |-> success]>>
           ELSE /\ last_reply' = <<>>
                /\ UNCHANGED <<replies, reply_requests, processed_messages,
                               processed_file>>
    /\ reply_queue' = Tail(reply_queue)
    /\ rpc' = IF Tail(reply_queue) = <<>> THEN "ready" ELSE "run"
    /\ UNCHANGED <<loaded, worldVars, storeVars, procVars, serviceVars>>

\* somebody (a user, a bot) posts in the channel; conversations_history
\* lists the newest message first
ChannelMessage ==
    /\ \E m \in ReplyChannelMessages :
          /\ \A i \in 1..Len(slack_history) : slack_history[i].ts < m.ts
          /\ slack_history' = <<m>> \o slack_history
    /\ UNCHANGED <<reddit_posts, batch_sizes, storeVars, procVars, replyVars,
                   serviceVars>>

ReplyInit ==
    /\ InitState
    /\ slack_history = <<>>
    /\ reddit_posts = <<>>
    /\ batch_sizes = BatchSizes

ReplyNext ==
    \/ ChannelMessage
    \/ NewSlackReplySystem
    \/ ProcessRecentMessages
    \/ ProcessMessage

ReplySpec == ReplyInit /\ [][ReplyNext]_vars

(***************************************************************************)
(* JiraTicketGenerator.get_ticket_for_message as a function of the message *)
(* id: the calls made so far, each with its id and the ticket number.      *)
(***************************************************************************)
MaxTicketCalls == 3

\* the message ids of the model
MessageIds == {1, 2, 3, 4, 976, 1698}

\* generator.get_ticket_for_message(message_id); the result is the number n
\* of the returned f"JIRA-{n}"
GetTicketForMessage ==
    /\ Len(calls) < MaxTicketCalls
    /\ \E message_id \in MessageIds :
          calls' = Append(calls,
                          [message_id |-> message_id,
                           result |-> get_ticket_for_message(message_id)])
    /\ UNCHANGED <<worldVars, storeVars, procVars, replyVars, feedbackVars,
                   fetcherVars, monitorVars, writerVars>>

TicketNext == GetTicketForMessage

TicketSpec == ReplyInit /\ [][TicketNext]_vars

(***************************************************************************)
(* The reply of the Processing Pipeline: EnhancedMessageProcessor          *)
(* (enhanced_message_processor.py) next to the channel-polling reply       *)
(* system.  EnhancedMessageProcessor.__init__ passes slack_poster to       *)
(* MessageProcessor.__init__, which takes no such argument and raises      *)
(* TypeError; process_single_message_with_reply is modelled as it is       *)
(* written, for a processor that exists.  Of process_single_message only   *)
(* the result is kept.                                                     *)
(***************************************************************************)
\* the MessageRecord of the row stored for a message of the all-feedforward
\* channel: timestamp is the ISO form of the native ts (microseconds kept)
MessageRecordOf(m) ==
    [source |-> parse_slack_message(m).source, content |-> m.text,
     author_id |-> m.user, timestamp |-> m.ts,
     channel_name |-> "all-feedforward"]

\* str(int(datetime.fromisoformat(message.timestamp).timestamp())): the
\* whole seconds of the timestamp.  The native ts of the model count tenths
\* of a second (Slack's ts carry six decimals), none of them a whole second
whole_seconds(timestamp) == timestamp - (timestamp % 10)

\* the dictionary process_single_message_with_reply hands to process_message
MockSlackMessage(message) ==
    [ts |-> whole_seconds(message.timestamp), text |-> message.content,
     user |-> message.author_id, bot_id |-> None, subtype |-> None]

\* EnhancedMessageProcessor(...).process_single_message_with_reply(message):
\* the processor's own SlackReplySystem() has loaded the log; `success` is
\* the result of process_single_message, `replied` that of post_reply
ProcessSingleMessageWithReply ==
    /\ \E m \in Range(slack_history), success \in BOOLEAN,
          replied \in BOOLEAN :
       LET message == MessageRecordOf(m)
           slack_message == MockSlackMessage(message)
       IN  IF /\ success
              /\ message.channel_name = "all-feedforward"
              /\ message.source = "slack"
              /\ should_reply_to_message(slack_message,
                    load_processed_messages(processed_file))
           THEN /\ processed_file' =
                     log_processed(processed_file, slack_message.ts, replied)
                /\ pipeline_replied' =
                     IF replied THEN pipeline_replied \cup {m.ts}
                     ELSE pipeline_replied
           ELSE UNCHANGED <<processed_file, pipeline_replied>>
    /\ UNCHANGED <<processed_messages, loaded, rpc, reply_queue, replies,
                   reply_requests, last_reply, initial_count, counts,
                   watermarkVars, worldVars, storeVars, procVars,
                   feedbackVars, classifierVars, monitorVars, writerVars>>

BothPathsNext ==
    \/ ReplyNext
    \/ ProcessSingleMessageWithReply

BothPathsSpec == ReplyInit /\ [][BothPathsNext]_vars

(***************************************************************************)
(* The continuous runner (run_processor.py, message_processor.py main):    *)
(* one batch size for all cycles, and the loop never stops running cycles. *)
(***************************************************************************)
\* both items have been ingested, the Slack message before the Reddit post,
\* and ingestion is over
FairInit ==
    /\ NothingRun
    /\ NoFeedbackRun
    /\ NoMonitor
    /\ NoWriters
    /\ slack_history = <<SlackMsg1>>
    /\ reddit_posts = <<RedditPost1>>
    /\ \E n \in BatchSizes : batch_sizes = {n}
    /\ \E t1, t2 \in 0..MaxClock :
          /\ t1 < t2
          /\ now = t2
          /\ messages =
               save_posts_to_unified_db(
                   SaveAll(<<>>,
                           fetch_reviews_from_slack(slack_history, TRUE, 1),
                           t1),
                   reddit_posts, t2)

FairNext == RunProcessingCycle \/ ProcessSingleMessage \/ Close

FairSpec ==
    /\ FairInit
    /\ [][FairNext]_vars
    /\ WF_vars(RunProcessingCycle)
    /\ WF_vars(ProcessSingleMessage)
    /\ WF_vars(Close)

(***************************************************************************)
(* Re-polling (test_deduplication.py): auto_process_new_reviews runs twice *)
(* in succession on a channel that does not change in between.  The store  *)
(* holds what an earlier fetch_slack_messages_unified saved of an earlier   *)
(* state of the channel.                                                   *)
(***************************************************************************)
\* the channel histories of the model: newest first
Histories ==
    {h \in UNION {[1..n -> {SlackMsg1, SlackMsg2, SlackMsg3, SlackMsg4}] :
                     n \in 0..4} :
        \A i, j \in 1..Len(h) : i < j => h[i].ts > h[j].ts}

DedupInit ==
    /\ NothingRun
    /\ NoFeedbackRun
    /\ NoMonitor
    /\ NoWriters
    /\ reddit_posts = <<>>
    /\ batch_sizes = BatchSizes
    /\ now \in 0..MaxClock
    /\ slack_history \in Histories
    /\ \E k \in 0..Len(slack_history) :
       \E limit \in 0..(Len(slack_history) - k) :
          LET earlier == SubSeq(slack_history, k + 1, Len(slack_history))
          IN  messages =
                SaveAll(<<>>, fetch_reviews_from_slack(earlier, TRUE, limit), 0)

\* count = slack_fetcher.auto_process_new_reviews(): the first or the second
\* run of test_deduplication
AutoProcessNewReviews ==
    /\ Len(counts) < 2
    /\ LET result == auto_process_new_reviews(messages, slack_history, now)
       IN  /\ messages' = result.rows
           /\ counts' = Append(counts, result.count)
    /\ initial_count' = IF counts = <<>> THEN Len(messages) ELSE initial_count
    /\ UNCHANGED <<now, worldVars, procVars, replyVars, feedbackVars, classifierVars, monitorVars,
                   writerVars, watermarkVars, enhancedVars>>

DedupNext == AutoProcessNewReviews

DedupSpec == DedupInit /\ [][DedupNext]_vars

(***************************************************************************)
(* The Slack review adapter with the watermark in memory:                  *)
(* SlackReviewFetcher of feedback_mcp_server.py and its check_new_reviews  *)
(* tool.  The watermark is the attribute last_processed_timestamp of the   *)
(* module-level slack_fetcher; the store is the feedbacks table, of which  *)
(* the id, the source, the content and the processed flag are kept.        *)
(***************************************************************************)
\* a second App Store review in the app-review channel
AppReview3 == [ts |-> 3, user |-> "U2", text |-> "review_raw", bot_id |-> None, subtype |-> None]

\* what is posted in the app-review channel: reviews and other messages
ReviewChannelMessages == {SlackMsg1, SlackMsg2, AppReview3, SlackMsg4}

\* _parse_slack_message of feedback_mcp_server.py: <<review_data>> for an
\* App Store or a Play Store review, <<>> (None) for any other message
parse_review(m) ==
    IF MentionsAppStore(m.text)
    THEN <<[id |-> <<"slack_appstore", m.ts, m.user>>, source |-> "app_store",
            content |-> StripReviewPrefixes(m.text), timestamp |-> m.ts]>>
    ELSE IF MentionsPlayStore(m.text)
    THEN <<[id |-> <<"slack_playstore", m.ts, m.user>>,
            source |-> "play_store",
            content |-> StripReviewPrefixes(m.text), timestamp |-> m.ts]>>
    ELSE <<>>

\* conversations_history(channel, limit = 50, oldest): the messages after
\* `oldest`, all of them when no oldest is passed (the channels of the model
\* hold fewer than 50 messages)
HistorySince(history, oldest) ==
    IF oldest = <<>> THEN history
    ELSE SelectSeq(history, LAMBDA m : m.ts > oldest[1])

\* the loop of check_for_new_reviews over response["messages"]: the parsed
\* reviews in new_reviews and the greatest ts of a parsed review, or of the
\* watermark, in latest_timestamp
RECURSIVE ScanReviews(_, _, _)
ScanReviews(listed, new_reviews, latest_timestamp) ==
    IF listed = <<>>
    THEN [new_reviews |-> new_reviews, latest_timestamp |-> latest_timestamp]
    ELSE LET message == Head(listed)
             parsed == IF message.text # "" THEN parse_review(message)
                       ELSE <<>>
         IN  IF parsed = <<>>
             THEN ScanReviews(Tail(listed), new_reviews, latest_timestamp)
             ELSE ScanReviews(Tail(listed), new_reviews \o parsed,
                    IF latest_timestamp = <<>>
                       \/ message.ts > latest_timestamp[1]
                    THEN <<message.ts>> ELSE latest_timestamp)

\* faulty variant: the watermark is left where it was
check_for_new_reviews_keeps_watermark(has_client, enabled, answered, history, last) ==
    IF ~has_client \/ ~enabled \/ ~answered
    THEN [new_reviews |-> <<>>, latest_timestamp |-> last]
    ELSE [ScanReviews(HistorySince(history, last), <<>>, last)
            EXCEPT !.latest_timestamp = last]

\* check_for_new_reviews: the reviews it returns and the watermark it leaves.
\* `answered` is FALSE when the channel is not found or the call of
\* conversations_history raises SlackApiError
check_for_new_reviews(has_client, enabled, answered, history, last) ==
    IF ~has_client \/ ~enabled \/ ~answered
    THEN [new_reviews |-> <<>>, latest_timestamp |-> last]
    ELSE ScanReviews(HistorySince(history, last), <<>>, last)

\* save_feedback of feedback_mcp_server.py: INSERT OR REPLACE INTO feedbacks
InsertOrReplaceFeedback(rows, fb) ==
    {r \in rows : r.id # fb.id} \cup {fb}

\* the loop of auto_process_new_reviews over new_reviews: each review is
\* saved with processed = True; `saved` are the positions for which
\* save_feedback returned True (it returns False when sqlite raises)
RECURSIVE SaveReviews(_, _, _, _)
SaveReviews(rows, new_reviews, i, saved) ==
    IF i > Len(new_reviews) THEN rows
    ELSE LET d == new_reviews[i]
             fb == [id |-> d.id, source |-> d.source,
                    content |-> CleanContent(d.content), processed |-> TRUE]
         IN  SaveReviews(IF i \in saved THEN InsertOrReplaceFeedback(rows, fb)
                         ELSE rows,
                         new_reviews, i + 1, saved)

\* slack_fetcher.check_for_new_reviews(channel_name)
CheckForNewReviews ==
    /\ \E answered \in BOOLEAN :
          last_processed_timestamp' =
             check_for_new_reviews(client, auto_process_enabled, answered,
                                   slack_history,
                                   last_processed_timestamp).latest_timestamp
    /\ UNCHANGED <<auto_process_enabled, feedbacks, initial_count, counts,
                   enhancedVars, worldVars, storeVars, procVars, replyVars, feedbackVars,
                   classifierVars, monitorVars, writerVars>>

\* slack_fetcher.auto_process_new_reviews(channel_name)
AutoProcessReviews ==
    /\ \E answered \in BOOLEAN :
       LET checked == check_for_new_reviews(client, auto_process_enabled,
                         answered, slack_history, last_processed_timestamp)
       IN  /\ last_processed_timestamp' = checked.latest_timestamp
           /\ \E saved \in SUBSET (1..Len(checked.new_reviews)) :
                 feedbacks' = SaveReviews(feedbacks, checked.new_reviews, 1,
                                          saved)
    /\ UNCHANGED <<auto_process_enabled, initial_count, counts,
                   enhancedVars, worldVars, storeVars, procVars, replyVars, feedbackVars,
                   classifierVars, monitorVars, writerVars>>

\* the check_new_reviews tool: auto_process_new_reviews when auto_process is
\* true (the default), else check_for_new_reviews alone
CheckNewReviews ==
    /\ \E auto_process \in BOOLEAN :
          IF auto_process THEN AutoProcessReviews ELSE CheckForNewReviews

\* a review or another message is posted in the app-review channel
ReviewChannelMessage ==
    /\ \E m \in ReviewChannelMessages :
          /\ \A i \in 1..Len(slack_history) : slack_history[i].ts < m.ts
          /\ slack_history' = <<m>> \o slack_history
    /\ UNCHANGED <<reddit_posts, batch_sizes, storeVars, procVars, replyVars,
                   serviceVars>>

\* the server is started again: slack_fetcher = SlackReviewFetcher() has no
\* watermark, has a client when SLACK_BOT_TOKEN is set, and reads
\* AUTO_PROCESS_REVIEWS; the feedbacks table is in the database file
StartServer ==
    /\ last_processed_timestamp' = <<>>
    /\ client' \in BOOLEAN
    /\ auto_process_enabled' \in BOOLEAN
    /\ UNCHANGED <<feedbacks, initial_count, counts, enhancedVars,
                   db_exists, bot_token,
                   running, handler, mpc, status,
                   worldVars, storeVars, procVars, replyVars, feedbackVars,
                   classifierVars, writerVars>>

\* the server has just been started with a token and AUTO_PROCESS_REVIEWS
\* unset ("true"); the feedbacks table is empty
WatermarkInit ==
    /\ InitState
    /\ slack_history = <<>>
    /\ reddit_posts = <<>>
    /\ batch_sizes = BatchSizes

WatermarkNext ==
    \/ StartServer
    \/ ReviewChannelMessage
    \/ CheckForNewReviews
    \/ AutoProcessReviews
    \/ CheckNewReviews

WatermarkSpec == WatermarkInit /\ [][WatermarkNext]_vars

(***************************************************************************)
(* The orchestrator: UnifiedMCPMonitorUpdated (unified_mcp_monitor_        *)
(* updated.py).  main_loop runs the five service checks one after the      *)
(* other, reports and sleeps.  A signal is delivered between two steps of  *)
(* the process; what it does depends on the handler installed last.  The   *)
(* counters of MonitorStatus are left out.                                 *)
(***************************************************************************)
\* the monitor was started: __init__ installed signal_handler and main_loop
\* set running = True; the store holds the channel message an earlier
\* fetch_slack_messages_unified saved if the database exists
MonitorInit ==
    /\ NothingRun
    /\ NoFeedbackRun
    /\ NoWriters
    /\ now = 0
    /\ slack_history = <<SlackMsg1>>
    /\ reddit_posts = <<RedditPost1>>
    /\ batch_sizes = {NoLimit}
    /\ db_exists \in BOOLEAN
    /\ bot_token \in BOOLEAN
    /\ client \in BOOLEAN
    /\ client => bot_token
    /\ messages = IF db_exists
                  THEN SaveAll(<<>>,
                               fetch_reviews_from_slack(slack_history, TRUE, 1),
                               0)
                  ELSE <<>>
    /\ running = TRUE
    /\ handler = "monitor"
    /\ mpc = "loop"
    /\ status = [s \in Services |-> "stopped"]

\* "running" if the check returned True, "error" otherwise
StatusOf(ok) == IF ok THEN "running" ELSE "error"

\* while self.running
MainLoopTest ==
    /\ mpc = "loop"
    /\ mpc' = IF running THEN "feedback" ELSE "stopped"
    /\ UNCHANGED <<db_exists, bot_token, client, running, handler, status,
                   feedbackVars, classifierVars, fetcherVars, writerVars, worldVars, storeVars, procVars,
                   replyVars>>

\* check_feedback_management_unified: the import raises FileNotFoundError
\* without the database file; else the components are healthy iff the client
\* is there
CheckFeedbackManagementUnified ==
    /\ mpc = "feedback"
    /\ status' = [status EXCEPT !["feedback-management-unified"] =
                                   StatusOf(db_exists /\ client)]
    /\ mpc' = "reddit"
    /\ UNCHANGED <<db_exists, bot_token, client, running, handler,
                   feedbackVars, classifierVars, fetcherVars, writerVars, worldVars, storeVars, procVars,
                   replyVars>>

\* check_reddit_mcp_unified: RedditEarnInMonitorUnified() calls sys.exit(1)
\* in init_unified_database without the database file (SystemExit is not an
\* Exception: it leaves the check and main_loop); else it installs its own
\* signal handler, and fetch_new_posts saves the posts it got (none when
\* the Reddit API fails)
CheckRedditMcpUnified ==
    /\ mpc = "reddit"
    /\ IF ~db_exists
       THEN /\ mpc' = "exited"
            /\ UNCHANGED <<handler, status, messages>>
       ELSE /\ handler' = "reddit"
            /\ \E posts \in {reddit_posts, <<>>} :
                  messages' = save_posts_to_unified_db(messages, posts, now)
            /\ status' = [status EXCEPT !["reddit-mcp-unified"] = "running"]
            /\ mpc' = "slack"
    /\ UNCHANGED <<db_exists, bot_token, client, running, now,
                   feedbackVars, classifierVars, fetcherVars, writerVars, worldVars, procVars, replyVars>>

\* check_slack_integration_unified: without a client, or when the channel is
\* not found, the check fails; else auto_process_new_reviews runs (and finds
\* nothing when its own calls of the Slack API fail)
CheckSlackIntegrationUnified ==
    /\ mpc = "slack"
    /\ \E found \in BOOLEAN, ok \in BOOLEAN :
          /\ status' = [status EXCEPT !["slack-integration-unified"] =
                                         StatusOf(client /\ found)]
          /\ messages' =
               IF client /\ found /\ ok
               THEN auto_process_new_reviews(messages, slack_history, now).rows
               ELSE messages
    /\ mpc' = "processor"
    /\ UNCHANGED <<db_exists, bot_token, client, running, handler, now,
                   feedbackVars, classifierVars, fetcherVars, writerVars, worldVars, procVars, replyVars>>

\* check_message_processor: MessageProcessor() and run_processing_cycle()
\* up to the loop of process_batch
CheckMessageProcessor ==
    /\ mpc = "processor"
    /\ RunProcessingCycle

\* check_message_processor: the loop of process_batch
CheckMessageProcessorBatch ==
    /\ mpc = "processor"
    /\ ProcessSingleMessage

\* check_message_processor: run_processing_cycle has returned the stats
CheckMessageProcessorStats ==
    /\ mpc = "processor"
    /\ pc = "done"
    /\ mpc' = "processor_close"
    /\ UNCHANGED <<db_exists, bot_token, client, running, handler, status,
                   feedbackVars, classifierVars, fetcherVars, writerVars, worldVars, storeVars, procVars,
                   replyVars>>

\* check_message_processor: await processor.close()
CheckMessageProcessorClose ==
    /\ mpc = "processor_close"
    /\ Close

\* check_message_processor: return True
CheckMessageProcessorReturn ==
    /\ mpc = "processor_close"
    /\ pc = "idle"
    /\ status' = [status EXCEPT !["message-processor"] = "running"]
    /\ mpc' = "reply"
    /\ UNCHANGED <<db_exists, bot_token, client, running, handler,
                   feedbackVars, classifierVars, fetcherVars, writerVars, worldVars, storeVars, procVars,
                   replyVars>>

\* check_slack_reply_system: SlackReplySystem() raises ValueError without
\* the token and the check returns False; else the new instance loads the
\* replied-set and process_recent_messages runs up to its loop
CheckSlackReplySystem ==
    /\ mpc = "reply"
    /\ IF ~bot_token
       THEN /\ status' = [status EXCEPT !["slack-reply-system"] = "error"]
            /\ mpc' = "report"
            /\ UNCHANGED <<processed_messages, loaded, rpc, reply_queue,
                           last_reply>>
       ELSE /\ processed_messages' = load_processed_messages(processed_file)
            /\ loaded' = load_processed_messages(processed_file)
            /\ \E ok \in BOOLEAN :
                  /\ reply_queue' = IF ok THEN slack_history ELSE <<>>
                  /\ rpc' = IF ok /\ slack_history # <<>>
                            THEN "run" ELSE "ready"
            /\ last_reply' = <<>>
            /\ mpc' = "reply_run"
            /\ UNCHANGED status
    /\ UNCHANGED <<db_exists, bot_token, client, running, handler,
                   processed_file, replies, reply_requests,
                   feedbackVars, classifierVars, fetcherVars, writerVars, worldVars, storeVars, procVars>>

\* check_slack_reply_system: the loop of process_recent_messages
CheckSlackReplySystemMessage ==
    /\ mpc = "reply_run"
    /\ ProcessMessage

\* check_slack_reply_system: process_recent_messages has returned; close()
\* and return True
CheckSlackReplySystemReturn ==
    /\ mpc = "reply_run"
    /\ rpc = "ready"
    /\ rpc' = "none"
    /\ status' = [status EXCEPT !["slack-reply-system"] = "running"]
    /\ mpc' = "report"
    /\ UNCHANGED <<db_exists, bot_token, client, running, handler,
                   processed_messages, loaded, processed_file, reply_queue,
                   replies, reply_requests, last_reply,
                   feedbackVars, classifierVars, fetcherVars, writerVars, worldVars, storeVars, procVars>>

\* log_status, save_status_report and asyncio.sleep(check_interval)
LogStatusAndSleep ==
    /\ mpc = "report"
    /\ mpc' = "loop"
    /\ UNCHANGED <<db_exists, bot_token, client, running, handler, status,
                   feedbackVars, classifierVars, fetcherVars, writerVars, worldVars, storeVars, procVars,
                   replyVars>>

\* SIGINT or SIGTERM reaches the process: signal_handler of the monitor
\* sets running = False; signal_handler of RedditEarnInMonitorUnified calls
\* sys.exit(0), and SystemExit ends the process where it is
Signal ==
    /\ mpc \notin {"stopped", "exited"}
    /\ IF handler = "monitor"
       THEN /\ running' = FALSE
            /\ UNCHANGED mpc
       ELSE /\ mpc' = "exited"
            /\ UNCHANGED running
    /\ UNCHANGED <<db_exists, bot_token, client, handler, status,
                   feedbackVars, classifierVars, fetcherVars, writerVars, worldVars, storeVars, procVars,
                   replyVars>>

MonitorNext ==
    \/ MainLoopTest
    \/ CheckFeedbackManagementUnified
    \/ CheckRedditMcpUnified
    \/ CheckSlackIntegrationUnified
    \/ CheckMessageProcessor
    \/ CheckMessageProcessorBatch
    \/ CheckMessageProcessorStats
    \/ CheckMessageProcessorClose
    \/ CheckMessageProcessorReturn
    \/ CheckSlackReplySystem
    \/ CheckSlackReplySystemMessage
    \/ CheckSlackReplySystemReturn
    \/ LogStatusAndSleep
    \/ Signal

MonitorSpec == MonitorInit /\ [][MonitorNext]_vars

(***************************************************************************)
(* Concurrent ingestion: two runs of the same adapter (two processes, each *)
(* with its own connection) interleaved at the granularity of store        *)
(* statements.  save_posts_to_unified_db keeps one transaction for the     *)
(* whole batch; save_feedback opens and commits one per item.  SQLite lets *)
(* one connection write at a time: a run that has written holds the write  *)
(* lock until it commits, its changes are visible to the other run only    *)
(* after the commit, and a statement that cannot get the lock within the   *)
(* timeout raises OperationalError.                                        *)
(***************************************************************************)
\* the row save_posts_to_unified_db inserts for a post
RedditRow(post, t) ==
    Row(RedditId(post), "reddit", post.title, RedditContent(post),
        post.created_utc, None, None, FALSE, t, t)

\* the batches a run can be given; every batch of a kind holds the first
\* item of that kind
Batches(kind) ==
    IF kind = "reddit"
    THEN {[i \in 1..Len(posts) |-> RedditRow(posts[i], 0)] :
             posts \in {<<RedditPost1>>, <<RedditPost1, RedditPost2>>,
                        <<RedditPost2, RedditPost1>>}}
    ELSE {[i \in 1..Len(data) |-> NewFeedback(data[i], 0)] :
             data \in {fetch_reviews_from_slack(<<SlackMsg2, SlackMsg1>>,
                                                TRUE, limit) :
                          limit \in 1..2}}

ConcurrentInit ==
    /\ NothingRun
    /\ NoFeedbackRun
    /\ NoMonitor
    /\ initial_count = 0
    /\ now = 0
    /\ slack_history = <<SlackMsg2, SlackMsg1>>
    /\ reddit_posts = <<RedditPost1, RedditPost2>>
    /\ batch_sizes = BatchSizes
    /\ wkind \in {"reddit", "slack"}
    /\ wbatch \in [Writers -> Batches(wkind)]
    /\ wtodo = wbatch
    /\ wpc = [w \in Writers |-> "select"]
    /\ wfound = [w \in Writers |-> FALSE]
    /\ wview = [w \in Writers |-> <<>>]
    /\ wlock = 0
    /\ wchecked = [w \in Writers |-> <<>>]
    /\ wfailed = [w \in Writers |-> <<>>]
    /\ \E b \in Batches(wkind) : messages \in {<<>>, <<b[1]>>}

\* the table a statement of run w reads: its own transaction's when it has
\* written, the committed one otherwise
TableOf(w) == IF wlock = w THEN wview[w] ELSE messages

\* where run w goes on after the current item, when `rest` is left: the
\* Reddit run commits once after its loop, the feedback run is done
AfterItem(rest) ==
    IF rest # <<>> THEN "select"
    ELSE IF wkind = "reddit" THEN "commit" ELSE "done"

\* the existence check: SELECT id FROM messages WHERE id = ?
WriterSelect(w) ==
    /\ wpc[w] = "select"
    /\ LET row == Head(wtodo[w])
           exists == RowExists(TableOf(w), row.id)
       IN  /\ wchecked' = [wchecked EXCEPT ![w] = Append(@, row.id)]
           /\ wfound' = [wfound EXCEPT ![w] = exists]
           /\ IF wkind = "reddit" /\ exists
              THEN \* continue: skip existing posts
                   /\ wtodo' = [wtodo EXCEPT ![w] = Tail(@)]
                   /\ wpc' = [wpc EXCEPT ![w] = AfterItem(Tail(wtodo[w]))]
              ELSE /\ wpc' = [wpc EXCEPT ![w] = "write"]
                   /\ UNCHANGED wtodo
    /\ UNCHANGED <<wkind, wbatch, wview, wlock, wfailed, feedbackVars, classifierVars, fetcherVars,
                   monitorVars, worldVars, storeVars, procVars, replyVars>>

\* the statement of run w raised: the run logs the error and goes on with
\* its next item (save_posts_to_unified_db: except in the loop;
\* save_feedback: returns False to the loop of its caller)
Caught(w, error) ==
    /\ wfailed' = [wfailed EXCEPT
                     ![w] = Append(@, [id |-> Head(wtodo[w]).id,
                                       error |-> error])]
    /\ wtodo' = [wtodo EXCEPT ![w] = Tail(@)]
    /\ wpc' = [wpc EXCEPT ![w] = AfterItem(Tail(wtodo[w]))]

\* the INSERT (or, for save_feedback after a successful check, the UPDATE)
\* of run w, which has or gets the write lock
WriterWrite(w) ==
    /\ wpc[w] = "write"
    /\ wlock \in {0, w}
    /\ LET row == Head(wtodo[w])
           update == wkind = "slack" /\ wfound[w]
           after == IF update THEN save_feedback(TableOf(w), row)
                    ELSE SqlInsert(TableOf(w), row)
       IN  IF ~update /\ after = TableOf(w)
           THEN \* IntegrityError: UNIQUE constraint failed: messages.id
                /\ Caught(w, "IntegrityError")
                /\ UNCHANGED <<wview, wlock>>
           ELSE /\ wview' = [wview EXCEPT ![w] = after]
                /\ wlock' = w
                /\ UNCHANGED wfailed
                /\ IF wkind = "reddit"
                   THEN /\ wtodo' = [wtodo EXCEPT ![w] = Tail(@)]
                        /\ wpc' = [wpc EXCEPT
                                     ![w] = AfterItem(Tail(wtodo[w]))]
                   ELSE /\ wpc' = [wpc EXCEPT ![w] = "commit"]
                        /\ UNCHANGED wtodo
    /\ UNCHANGED <<wkind, wbatch, wfound, wchecked, feedbackVars, classifierVars, fetcherVars,
                   monitorVars, worldVars, storeVars, procVars, replyVars>>

\* the other run holds the write lock for longer than the timeout:
\* OperationalError: database is locked
WriterBusy(w) ==
    /\ wpc[w] = "write"
    /\ wlock \notin {0, w}
    /\ Caught(w, "OperationalError")
    /\ UNCHANGED <<wkind, wbatch, wfound, wview, wlock, wchecked,
                   feedbackVars, classifierVars, fetcherVars, monitorVars, worldVars, storeVars, procVars,
                   replyVars>>

\* conn.commit(): what the run has written becomes the table
WriterCommit(w) ==
    /\ wpc[w] = "commit"
    /\ messages' = TableOf(w)
    /\ wlock' = IF wlock = w THEN 0 ELSE wlock
    /\ wview' = [wview EXCEPT ![w] = <<>>]
    /\ IF wkind = "reddit"
       THEN /\ wpc' = [wpc EXCEPT ![w] = "done"]
            /\ UNCHANGED wtodo
       ELSE /\ wtodo' = [wtodo EXCEPT ![w] = Tail(@)]
            /\ wpc' = [wpc EXCEPT ![w] = AfterItem(Tail(wtodo[w]))]
    /\ UNCHANGED <<wkind, wbatch, wfound, wchecked, wfailed, now,
                   feedbackVars, classifierVars, fetcherVars, monitorVars, worldVars, procVars, replyVars>>

ConcurrentNext ==
    \E w \in Writers :
        \/ WriterSelect(w)
        \/ WriterWrite(w)
        \/ WriterBusy(w)
        \/ WriterCommit(w)

ConcurrentSpec == ConcurrentInit /\ [][ConcurrentNext]_vars

(***************************************************************************)
(* The classifiers on their own: callers classify texts in any order, with *)
(* either classifier (message_classifier.py and                            *)
(* enhanced_message_classifier.py, main and classify_batch).               *)
(***************************************************************************)
\* the number of classify_message calls of a run
MaxCalls == 3

\* the two classify_message functions tabulated on the texts and tickets
EnhancedResults ==
    [message \in ClassifierTexts, jira_ticket \in RandomTickets |->
        EnhancedClassify(message, jira_ticket)]

Results ==
    [message \in ClassifierTexts, jira_ticket \in RandomTickets |->
        Classify(message, jira_ticket)]

ClassifierInit ==
    /\ InitState
    /\ slack_history = <<>>
    /\ reddit_posts = <<>>
    /\ batch_sizes = BatchSizes

\* EnhancedMessageClassifier.classify_message(message)
EnhancedClassifyMessage ==
    /\ Len(calls) < MaxCalls
    /\ \E message \in ClassifierTexts, jira_ticket \in RandomTickets :
          calls' = Append(calls,
                          [classifier |-> "EnhancedMessageClassifier",
                           message |-> message,
                           result |-> EnhancedResults[message, jira_ticket]])
    /\ UNCHANGED <<worldVars, storeVars, procVars, replyVars, feedbackVars, fetcherVars,
                   monitorVars, writerVars>>

\* MessageClassifier.classify_message(message)
ClassifyMessage ==
    /\ Len(calls) < MaxCalls
    /\ \E message \in ClassifierTexts, jira_ticket \in RandomTickets :
          calls' = Append(calls,
                          [classifier |-> "MessageClassifier",
                           message |-> message,
                           result |-> Results[message, jira_ticket]])
    /\ UNCHANGED <<worldVars, storeVars, procVars, replyVars, feedbackVars, fetcherVars,
                   monitorVars, writerVars>>

ClassifierNext ==
    \/ EnhancedClassifyMessage
    \/ ClassifyMessage

ClassifierSpec == ClassifierInit /\ [][ClassifierNext]_vars

(***************************************************************************)
(* analyze_sentiment on arbitrary messages.  A message is given by the     *)
(* keywords and phrases of the three lists that occur in it.               *)
(***************************************************************************)
\* the number of analyze_sentiment calls of a run
MaxAnalyses == 1

\* the words that may occur in a message: three positive keywords, two
\* negative ones, two problem phrases and two words of no list
SentimentWords ==
    {"love", "great", "thanks", "terrible", "slow", "can't", "not working",
     "app", "fee"}

\* EnhancedMessageClassifier.analyze_sentiment(message); the empty message
\* holds no word
AnalyzeSentiment ==
    /\ Len(calls) < MaxAnalyses
    /\ \E found \in SUBSET SentimentWords, empty \in BOOLEAN :
          /\ empty => found = {}
          /\ calls' = Append(calls,
                             [found |-> found,
                              empty |-> empty,
                              result |-> analyze_sentiment(found, empty)])
    /\ UNCHANGED <<worldVars, storeVars, procVars, replyVars, feedbackVars,
                   fetcherVars, monitorVars, writerVars>>

SentimentNext == AnalyzeSentiment

SentimentSpec == ClassifierInit /\ [][SentimentNext]_vars

(***************************************************************************)
(* The Level-1 classification of the two classifiers on arbitrary          *)
(* messages.  A message is given by the keywords that occur in it.         *)
(***************************************************************************)
\* the number of Level-1 classifications of a run
MaxLevel1Calls == 1

\* the keywords that may occur in a message: of Payments ("instant" only in
\* the table of EnhancedMessageClassifier, "instant cash" and "unable to
\* get" only in the one of MessageClassifier), of Notifications and of
\* Trust and Security
Level1Words ==
    {"instant cash", "instant", "unable to get", "payment", "alert",
     "reminder", "secure"}

\* the sets of keywords that are the keywords of a message: "instant" occurs
\* wherever "instant cash" does
Level1Inputs ==
    {found \in SUBSET Level1Words :
        "instant cash" \in found => "instant" \in found}

\* the keys of classification_keywords in the order of the dict
classification_table ==
    <<"Payments and Cash Out", "Technical Issues / Bugs",
      "Trust, Security, and Transparency", "App UX / Performance",
      "Customer Experience (CX) & Support", "EarnIn Card / Tip Jar",
      "Bank Connections", "Notifications and Communication",
      "Onboarding and Account Setup">>

\* MessageClassifier._classify_level1(message) of a message that is not empty
ClassifyLevel1 ==
    /\ Len(calls) < MaxLevel1Calls
    /\ \E found \in Level1Inputs :
          calls' = Append(calls,
                          [classifier |-> "MessageClassifier",
                           found |-> found,
                           result |-> classify_level1(found, FALSE)])
    /\ UNCHANGED <<worldVars, storeVars, procVars, replyVars, feedbackVars,
                   fetcherVars, monitorVars, writerVars>>

\* EnhancedMessageClassifier._classify_level_1(message_lower)
EnhancedClassifyLevel1 ==
    /\ Len(calls) < MaxLevel1Calls
    /\ \E found \in Level1Inputs :
          calls' = Append(calls,
                          [classifier |-> "EnhancedMessageClassifier",
                           found |-> found,
                           result |-> classify_level_1(found)])
    /\ UNCHANGED <<worldVars, storeVars, procVars, replyVars, feedbackVars,
                   fetcherVars, monitorVars, writerVars>>

Level1Next ==
    \/ ClassifyLevel1
    \/ EnhancedClassifyLevel1

Level1Spec == ClassifierInit /\ [][Level1Next]_vars

(***************************************************************************)
(* The normalizer on texts with personal data (normalize_feedback as the   *)
(* fetch tools call it before save_feedback).                              *)
(***************************************************************************)
\* the length of a text in tokens
MaxTokens == 5

PiiTokens == {Tok("d", 3), Tok("d", 4), Tok("d", 10), Tok("d", 12),
              Tok("a", 2), Tok("-", 1), Tok(".", 1), Tok(" ", 1),
              Tok("@", 1), Tok("(", 1)}

\* the texts: a run of digits or letters ends where the next token begins
PiiTexts ==
    {s \in UNION {[1..n -> PiiTokens] : n \in 0..MaxTokens} : Join(s) = s}

\* nothing else runs
Quiet ==
    /\ messages = <<>>
    /\ now = 0
    /\ slack_history = <<>>
    /\ reddit_posts = <<>>
    /\ batch_sizes = BatchSizes
    /\ NothingRun
    /\ NoMonitor
    /\ NoWriters

NormalizeInit ==
    /\ Quiet
    /\ feedback = Feedback("", <<>>, FALSE)
    /\ fpc = "none"
    /\ raw_content \in PiiTexts
    /\ nfeedback = [content |-> raw_content, pii_detected |-> FALSE]
    /\ npc = "new"

\* feedback = normalizer.normalize_feedback(feedback)
NormalizeFeedback ==
    /\ npc = "new"
    /\ nfeedback' = normalize_feedback(nfeedback.content)
    /\ npc' = "normalized"
    /\ UNCHANGED <<raw_content, feedback, fpc, worldVars, storeVars, procVars,
                   replyVars, fetcherVars, monitorVars, writerVars,
                   classifierVars>>

NormalizeNext == NormalizeFeedback

NormalizeSpec == NormalizeInit /\ [][NormalizeNext]_vars

(***************************************************************************)
(* Classifier and scorer on a Feedback of the queue (the loop body of      *)
(* process_feedback_queue_unified).                                        *)
(***************************************************************************)
\* the largest rating of a Feedback; the smallest is -1
MaxRating == 7

\* no rating, and the integer ratings, those outside 1..5 among them
Ratings == {<<>>} \cup {<<r>> : r \in -1..MaxRating}

\* the contents: one for each category
ScoreTexts == {"bug", "feature", "review", "thanks", "cashout", "mixed", ""}

ScoreInit ==
    /\ Quiet
    /\ raw_content = <<>>
    /\ nfeedback = [content |-> <<>>, pii_detected |-> FALSE]
    /\ npc = "none"
    /\ \E content \in ScoreTexts, rating \in Ratings, pii_detected \in BOOLEAN :
          feedback = Feedback(content, rating, pii_detected)
    /\ fpc = "new"

\* feedback = classifier.classify_feedback(feedback)
ClassifyFeedback ==
    /\ fpc = "new"
    /\ LET category == classify_category(KeywordsIn(feedback.content))
           sentiment == classify_sentiment(KeywordsIn(feedback.content))
       IN  feedback' =
             [feedback EXCEPT
                !.category = category,
                !.sentiment = sentiment,
                !.severity = classify_severity(feedback.rating, sentiment,
                                               category,
                                               feedback.pii_detected)]
    /\ fpc' = "classified"
    /\ UNCHANGED <<raw_content, nfeedback, npc, worldVars, storeVars,
                   procVars, replyVars, fetcherVars, monitorVars, writerVars,
                   classifierVars>>

\* feedback = scorer.score_feedback(feedback)
ScoreFeedback ==
    /\ fpc = "classified"
    /\ feedback' =
         [feedback EXCEPT
            !.business_impact_score =
               <<business_impact_score(feedback.rating, feedback.sentiment,
                                       feedback.category, feedback.severity,
                                       feedback.pii_detected)>>]
    /\ fpc' = "scored"
    /\ UNCHANGED <<raw_content, nfeedback, npc, worldVars, storeVars,
                   procVars, replyVars, fetcherVars, monitorVars, writerVars,
                   classifierVars>>

ScoreNext ==
    \/ ClassifyFeedback
    \/ ScoreFeedback

ScoreSpec == ScoreInit /\ [][ScoreNext]_vars

(***************************************************************************)
(* Properties of the Message Store.                                        *)
(***************************************************************************)
\* the rows of the table with this id
RowsOf(rows, id) == {r \in Range(rows) : r.id = id}

\* the table holds a row with this id and processed = TRUE
IsProcessed(rows, id) == \E r \in RowsOf(rows, id) : r.processed

\* the table holds a row with this id and processed = FALSE
IsUnprocessed(rows, id) == \E r \in RowsOf(rows, id) : ~r.processed

\* no row that is processed before the step is unprocessed or gone after it
KeepsProcessed ==
    \A id \in AllIds : IsProcessed(messages, id) =>
        /\ IsProcessed(messages', id)
        /\ ~IsUnprocessed(messages', id)

\* C1: ingestion never resets processed.  Whenever an ingestion adapter
\* (fetch_slack_messages_unified with save_feedback, save_posts_to_unified_db,
\* add_message, the Reddit migration) writes, every row that had
\* processed = TRUE before the write still has it after the write.
C1_IngestionKeepsProcessed == [][Ingest => KeepsProcessed]_vars

\* C2: processed monotonicity.  No step of a Processing Pipeline run
\* (run_processing_cycle of MessageProcessor, process_feedback_queue_unified)
\* sets the processed flag of a row back from TRUE to FALSE.
C2_ProcessedMonotonic == [][Pipeline => KeepsProcessed]_vars

\* a pipeline run has handled messages and ended while the store held a row
\* that was processed before the run began, and the row is still processed
C2_Witness ==
    /\ pc = "done"
    /\ handled # <<>>
    /\ \E r \in Range(messages) : r.processed /\ r.id \notin Range(handled)

\* C3: idempotent ingestion.  After any sequence of ingestion runs the
\* store holds exactly one row per message id that was ingested: no id
\* occurs in two rows, so ingesting an item a second time adds no row.
C3_OneRowPerId ==
    \A i, j \in 1..Len(messages) : messages[i].id = messages[j].id => i = j

\* all three items are stored, one row each, and the general Slack message
\* has been ingested a second time: its row is unprocessed with updated_at
\* after created_at, which only the UPDATE of save_feedback produces
C3_Witness ==
    /\ Len(messages) = 3
    /\ \E r \in Range(messages) :
          /\ r.source = "slack"
          /\ ~r.processed
          /\ r.created_at < r.updated_at
          /\ RowCount(messages, r.id) = 1

(***************************************************************************)
(* Properties of the Slack reply subsystem.                                *)
(***************************************************************************)
\* C4: at most one reply per source message across restarts.  Over any
\* number of reply cycles and of new SlackReplySystem instances, each of
\* which reloads the replied-set from processed_messages.txt, at most one
\* reply is successfully posted to any channel message.
C4_AtMostOneReply == \A ts \in SlackTs : replies[ts] <= 1

\* message 1 was replied to and logged, then a new instance was created
\* (it loaded 1 from the log), and that instance has run a complete cycle over
\* the channel, in which it replied to the newer message 4 and not to 1
C4_Witness ==
    /\ replies[SlackMsg1.ts] = 1
    /\ SlackMsg1.ts \in loaded
    /\ replies[SlackMsg4.ts] = 1
    /\ SlackMsg4.ts \notin loaded
    /\ rpc = "ready"

\* C5: the persisted reply log processed_messages.txt holds each native
\* message timestamp at most once, after any number of reply runs, runs that
\* were interrupted (the instance replaced before its loop ended) and retried
\* included.
C5_LogHasNoDuplicates ==
    \A i, j \in 1..Len(processed_file) :
        processed_file[i] = processed_file[j] => i = j

\* a run replied to message 4 and was cut short or failed on message 1; a new
\* instance (it loaded 4 only) retried the channel, replied to 1 and finished
C5_Witness ==
    /\ loaded = {SlackMsg4.ts}
    /\ processed_file = <<SlackMsg4.ts, SlackMsg1.ts>>
    /\ rpc = "ready"

\* what one process_message call does to the replied-set, by its result
ReplyOutcome ==
    LET message == Head(reply_queue)
    IN  IF last_reply' = <<>>
        THEN \* no reply was due: nothing changes
             /\ ~should_reply_to_message(message, processed_messages)
             /\ UNCHANGED <<processed_messages, processed_file, replies>>
        ELSE IF last_reply'[1].success
        THEN \* posted: in the set and in the log from now on
             /\ message.ts \in processed_messages'
             /\ message.ts \in Range(processed_file')
             /\ ~should_reply_to_message(message, processed_messages')
        ELSE \* post failed: nothing added, eligible again
             /\ UNCHANGED <<processed_messages, processed_file, replies>>
             /\ should_reply_to_message(message, processed_messages')

\* C6: the replied-set changes only on a successful reply post.  A failed
\* post_reply adds nothing and leaves the message eligible for the next
\* cycle; a successful one adds the timestamp to the in-memory set and to the
\* log; the log changes in no other step; and no step posts a reply to a
\* message whose timestamp is in the log.
C6_RepliedSetOnlyOnSuccess ==
    [][/\ ProcessMessage => ReplyOutcome
       /\ processed_file' # processed_file =>
             /\ ProcessMessage
             /\ last_reply' # <<>>
             /\ last_reply'[1].success
             /\ processed_file' =
                   Append(processed_file, last_reply'[1].original_message_ts)
       /\ \A ts \in Range(processed_file) : replies'[ts] = replies[ts]
      ]_vars

\* the reply to message 4 was posted and recorded, the post of the reply to
\* message 1 has just failed and 1 is not in the replied-set
C6_Witness ==
    /\ last_reply = <<[original_message_ts |-> SlackMsg1.ts,
                       success |-> FALSE]>>
    /\ SlackMsg1.ts \notin processed_messages
    /\ SlackMsg4.ts \in processed_messages
    /\ replies[SlackMsg4.ts] = 1
    /\ replies[SlackMsg1.ts] = 0

(***************************************************************************)
(* Properties of the Processing Pipeline (MessageProcessor).               *)
(***************************************************************************)
\* the message process_single_message is called with in this step
Current == Head(batch)

\* this step called post_message for the current message and the post failed
PostFailedStep ==
    /\ ProcessSingleMessage
    /\ stats'.failed = stats.failed + 1

\* this step called post_message for the current message
PostAttemptStep ==
    /\ ProcessSingleMessage
    /\ slack_poster
    /\ ClassifyRecord(Current).slack_channel # ""

\* C7: at-most-one post attempt.  When the post of a message to its
\* destination channel fails, the message is still marked processed = TRUE
\* with updated_at refreshed in that run, and no later run posts it again:
\* a post is only attempted for a message none of whose posts has failed.
C7_FailedPostStillProcessed ==
    [][/\ PostFailedStep =>
             \A r \in RowsOf(messages', Current.id) :
                 r.processed /\ r.updated_at = now
       /\ PostAttemptStep =>
             post_attempts[Current.id] = post_success[Current.id]
      ]_vars

\* this step handles a message for which no post target is available
NoTargetStep ==
    /\ ProcessSingleMessage
    /\ \/ ~slack_poster
       \/ ClassifyRecord(Current).slack_channel = ""

\* C8: no post target.  When the classification of a message resolves to
\* the empty channel, or the poster failed to initialise, the pipeline makes
\* no post attempt, marks the message processed and counts it as successful.
C8_NoTargetStillProcessed ==
    [][NoTargetStep =>
          /\ UNCHANGED <<post_attempts, post_success>>
          /\ \A r \in RowsOf(messages', Current.id) : r.processed
          /\ stats'.successful = stats.successful + 1
          /\ stats'.failed = stats.failed
          /\ processed_count' = processed_count + 1
          /\ error_count' = error_count
      ]_vars

\* a processor without poster has just handled the Slack message, whose
\* classification names a channel: nothing was posted, the row is processed
\* and the message counts as successful
C8_Witness ==
    /\ pc \in {"batch", "done"}
    /\ ~slack_poster
    /\ handled # <<>>
    /\ LET id == handled[Len(handled)]
       IN  /\ id = parse_slack_message(SlackMsg1).id
           /\ IsProcessed(messages, id)
           /\ post_attempts[id] = 0
           /\ stats.successful >= 1
           /\ stats.failed = 0

\* the message is stored unprocessed and its own handling posts nothing (its
\* classification names no channel), so that only the posts of other messages
\* can fail
WaitsWithoutPost(id) ==
    /\ IsUnprocessed(messages, id)
    /\ \A r \in RowsOf(messages, id) : ClassifyRecord(r).slack_channel = ""

\* C9: no starvation.  Under repeated pipeline cycles with one batch size
\* N >= 1 (the cycles are weakly fair), every message that is stored with
\* processed = FALSE is eventually processed, whatever the outcomes of the
\* channel posts of the messages older than it.  The property is stated for
\* the messages that have no post of their own.
C9_NoStarvation ==
    \A id \in AllIds : WaitsWithoutPost(id) ~> IsProcessed(messages, id)

\* rows, in this order, are the n oldest unprocessed rows of the table (all
\* of them for NoLimit or when there are fewer), oldest first
OldestUnprocessed(table, n, rows) ==
    LET unprocessed == {r \in Range(table) : ~r.processed}
        size == Cardinality(unprocessed)
    IN  /\ Len(rows) = IF n = NoLimit \/ n > size THEN size ELSE n
        /\ Range(rows) \subseteq unprocessed
        /\ \A i, j \in 1..Len(rows) : i # j => rows[i] # rows[j]
        /\ \A i, j \in 1..Len(rows) :
              i < j => rows[i].created_at <= rows[j].created_at
        /\ \A r \in unprocessed \ Range(rows) :
              \A i \in 1..Len(rows) : rows[i].created_at <= r.created_at

\* C10: oldest first.  A pipeline run with batch size N takes exactly the N
\* unprocessed messages with the smallest created_at (all when fewer are
\* unprocessed or N is None) and handles them one after the other in
\* ascending created_at order: the k-th message it handles is the k-th of
\* that list, and the run ends when all of them are handled.
C10_OldestFirst ==
    [][/\ RunProcessingCycle =>
             OldestUnprocessed(messages, batch_size', fetched')
       /\ ProcessSingleMessage =>
             /\ Len(handled) < Len(fetched)
             /\ handled' = Append(handled, fetched[Len(handled) + 1].id)
       /\ pc' = "done" => Len(handled') = Len(fetched')
      ]_vars

\* a run with batch size 2 has ended: it handled two messages, the older
\* one first, while a third one, not older than they are, was unprocessed
\* when the run began and was left to a later run
C10_Witness ==
    /\ pc = "done"
    /\ batch_size = 2
    /\ Len(handled) = 2
    /\ fetched[1].created_at < fetched[2].created_at
    /\ \E r \in Range(messages) :
          /\ ~r.processed
          /\ r.id \notin Range(handled)
          /\ fetched[2].created_at <= r.created_at

\* C11: empty cycle.  A processing cycle started when the store has no
\* unprocessed message returns total = 0, successful = 0, failed = 0 and
\* leaves every row of the store and every session counter as it was; no
\* post is attempted, neither by the cycle nor by its return.
C11_EmptyCycleChangesNothing ==
    [][/\ (RunProcessingCycle /\ \A r \in Range(messages) : r.processed) =>
             /\ pc' = "done"
             /\ fetched' = <<>>
             /\ stats' = EmptyStats
             /\ UNCHANGED <<messages, processed_count, error_count,
                            post_attempts, post_success>>
       /\ (Close /\ fetched = <<>>) =>
             /\ stats = EmptyStats
             /\ UNCHANGED <<messages, post_attempts, post_success>>
      ]_vars

\* a cycle has run on a store that holds rows, all of them processed, and
\* returned the empty statistics
C11_Witness ==
    /\ pc = "done"
    /\ messages # <<>>
    /\ \A r \in Range(messages) : r.processed
    /\ fetched = <<>>
    /\ stats = EmptyStats

\* this step handled the current message and failed: the post failed or
\* raised, and the row is still unprocessed
FailedStep ==
    /\ ProcessSingleMessage
    /\ IsUnprocessed(messages', Current.id)

\* C12: per-item failure isolation.  When handling one message of a batch
\* fails, the message is counted as failed exactly once (one more failure,
\* one more error entry, naming it), it is not handled again within the
\* batch, and every later message of the batch is still handled: the loop
\* goes on while messages are left, and when the batch ends every fetched
\* message was handled exactly once and counted as successful or failed.
C12_FailureIsolation ==
    [][/\ FailedStep =>
             /\ stats'.failed = stats.failed + 1
             /\ stats'.successful = stats.successful
             /\ stats'.errors = Append(stats.errors, Current.id)
             /\ error_count' = error_count + 1
             /\ \A i \in 1..Len(batch') : batch'[i].id # Current.id
             /\ batch' = Tail(batch)
             /\ batch' # <<>> => pc' = "batch"
       /\ pc' = "done" =>
             /\ handled' = [i \in 1..Len(fetched') |-> fetched'[i].id]
             /\ stats'.successful + stats'.failed = stats'.total
             /\ Len(stats'.errors) = stats'.failed
      ]_vars

\* a batch of two has ended: its first message failed and its second one
\* was handled all the same
C12_Witness ==
    /\ pc = "done"
    /\ Len(fetched) = 2
    /\ stats.errors = <<fetched[1].id>>
    /\ stats.failed = 1
    /\ stats.successful = 1
    /\ IsUnprocessed(messages, fetched[1].id)
    /\ IsProcessed(messages, fetched[2].id)

(***************************************************************************)
(* Properties of the review fetcher (SlackReviewFetcher).                  *)
(***************************************************************************)
\* C13: deduplicated re-polling.  When auto_process_new_reviews runs twice
\* in succession and no new Slack message arrives in between, the second
\* run processes 0 messages and the number of rows added to the store
\* equals the count the first run returned, whatever kinds of messages
\* (general, App Store, Play Store) the channel holds.
C13_DedupRepoll ==
    Len(counts) = 2 =>
        /\ counts[2] = 0
        /\ Len(messages) - initial_count = counts[1]

(***************************************************************************)
(* Properties of the orchestrator (UnifiedMCPMonitorUpdated).              *)
(***************************************************************************)
\* C14: graceful shutdown.  A shutdown signal that reaches the running
\* orchestrator at any point of any iteration only sets the shutdown flag:
\* the item and the batch in flight are not interrupted and run to
\* completion (the process never ends with a pipeline batch or a reply
\* batch unfinished), and the loop exits at the next between-iteration test
\* of the flag without starting another iteration.
C14_GracefulShutdown ==
    [][/\ Signal =>
             /\ running' = FALSE
             /\ UNCHANGED <<mpc, pc, batch, rpc, reply_queue>>
       /\ (MainLoopTest /\ ~running) => mpc' = "stopped"
       /\ mpc' \in {"stopped", "exited"} =>
             /\ pc' = "idle"
             /\ rpc' # "run"
      ]_vars

\* the position of main_loop after the check at position p
AfterCheck(p) ==
    CASE p = "feedback" -> "reddit"
      [] p = "reddit"   -> "slack"
      [] p = "slack"    -> "processor"
      [] p = "reply"    -> "report"
      [] p = "report"   -> "loop"

\* C15: adapter failures never stop the orchestrator.  In every iteration
\* of the monitor loop, a service check that fails (remote error, missing
\* credential, missing database file) sets the status of its service to
\* "error", the remaining checks of the iteration still run (the loop moves
\* on to the next check), and the loop goes on to the next interval.
C15_ChecksNeverStopTheLoop ==
    [][/\ (CheckFeedbackManagementUnified /\ ~(db_exists /\ client)) =>
             /\ status'["feedback-management-unified"] = "error"
             /\ mpc' = AfterCheck(mpc)
       /\ (CheckRedditMcpUnified /\ ~db_exists) =>
             /\ status'["reddit-mcp-unified"] = "error"
             /\ mpc' = AfterCheck(mpc)
       /\ (CheckSlackIntegrationUnified /\ ~client) =>
             /\ status'["slack-integration-unified"] = "error"
             /\ mpc' = AfterCheck(mpc)
       /\ (CheckSlackReplySystem /\ ~bot_token) =>
             /\ status'["slack-reply-system"] = "error"
             /\ mpc' = AfterCheck(mpc)
       /\ LogStatusAndSleep => mpc' = AfterCheck(mpc)
       /\ (MainLoopTest /\ running) => mpc' = "feedback"
      ]_vars

(***************************************************************************)
(* Properties of concurrent ingestion.                                     *)
(***************************************************************************)
\* the ids of the rows of a batch, in order
IdsOf(rows) == [i \in 1..Len(rows) |-> rows[i].id]

\* both runs have ended
AllDone == \A w \in Writers : wpc[w] = "done"

\* C16: concurrent ingestion is tolerated.  Two ingestion runs interleaved
\* at the granularity of single store statements (existence check, insert
\* or update, commit) that ingest the same external item leave exactly one
\* row for its id (never two, in the table or in a transaction), and neither
\* run aborts the remaining items of its batch: when a run has ended it has
\* gone through every item of its batch, in order.
C16_ConcurrentIngestion ==
    /\ \A id \in AllIds :
          /\ RowCount(messages, id) <= 1
          /\ \A w \in Writers : RowCount(wview[w], id) <= 1
    /\ \A w \in Writers :
          /\ wpc[w] = "done" => wchecked[w] = IdsOf(wbatch[w])
          /\ \A i \in 1..Len(wfailed[w]) :
                wfailed[w][i].id \in Range(wchecked[w])
    /\ AllDone =>
          \A id \in Range(IdsOf(wbatch[1])) \cap Range(IdsOf(wbatch[2])) :
              RowCount(messages, id) = 1

\* both runs have ended; both found the same item missing and tried to
\* insert it, the INSERT of one of them raised IntegrityError on the first
\* item of its batch of two, and that run went on to save its second item
C16_Witness ==
    /\ AllDone
    /\ \E w \in Writers :
          /\ Len(wbatch[w]) = 2
          /\ wfailed[w] = <<[id |-> wbatch[w][1].id,
                             error |-> "IntegrityError"]>>
          /\ RowCount(messages, wbatch[w][1].id) = 1
          /\ RowCount(messages, wbatch[w][2].id) = 1

(***************************************************************************)
(* C17: the ticket the reply subsystem attaches to a source message is a   *)
(* function of the message alone: all the replies requested for one        *)
(* message, a retry after a failed post or after a restart included,       *)
(* interpolate the same ticket id.                                         *)
(***************************************************************************)
C17_SameTicketOnRetry ==
    \A ts \in SlackTs :
       \A a, b \in reply_requests[ts] : a.logged_as = b.logged_as

(***************************************************************************)
(* C18: classification is deterministic: two calls of the same classifier  *)
(* on the same text, whatever was classified before or between them,       *)
(* return the same Level-1 and Level-2 category, channel, sentiment and    *)
(* confidence; only the random ticket may differ.                          *)
(***************************************************************************)
\* a result without its ticket
ButTicket(result) == [result EXCEPT !.jira_ticket = NoTicket]

SentimentOf(ts) ==
    LET message == CHOOSE m \in ReplyChannelMessages : m.ts = ts
    IN  analyze_sentiment(KeywordsIn(message.text), message.text = "")[1]

C19_ReplyBySentiment ==
    /\ \A ts1, ts2 \in SlackTs :
          (/\ SentimentOf(ts1) \in {"positive", "neutral"}
           /\ SentimentOf(ts2) \in {"positive", "neutral"})
             => \A a \in reply_requests[ts1], b \in reply_requests[ts2] :
                   a = b
    /\ \A ts \in SlackTs :
          SentimentOf(ts) = "negative"
             => \A a \in reply_requests[ts] :
                   /\ a.text = negative_reply_template(NoTicket).text
                   /\ a.logged_as \in {<<k>> : k \in RandomTickets}
                   /\ a.browse = a.logged_as

(***************************************************************************)
(* C20: classify_message on the empty string and on a string of spaces     *)
(* returns Level-1 and Level-2 Non-relevant, no channel, sentiment         *)
(* neutral, confidence 0.0 and a newly drawn ticket.                       *)
(***************************************************************************)
\* Level1Category.NON_RELEVANT / Level2Category.NON_RELEVANT and their value
NonRelevant == {"NON_RELEVANT", "Non-relevant or Ambiguous"}

C20_EmptyInput ==
    \A i \in 1..Len(calls) :
       calls[i].message \in {"", "blank"}
          => LET result == calls[i].result
             IN  /\ result.level_1_category \in NonRelevant
                 /\ result.level_2_category \in NonRelevant
                 /\ result.slack_channel = ""
                 /\ result.jira_ticket \in RandomTickets
                 /\ IF calls[i].classifier = "EnhancedMessageClassifier"
                    THEN /\ result.sentiment = "neutral"
                         /\ result.confidence[1] = 0
                    ELSE result.confidence_score[1] = 0

(***************************************************************************)
(* C24: for every text that contains an email address, a 10-digit phone    *)
(* number or a 16-digit card number, normalize_feedback sets pii_detected  *)
(* and returns a content in which none of the three patterns matches.      *)
(***************************************************************************)
C24_PiiRedaction ==
    (npc = "normalized" /\ detect_pii(raw_content))
       => /\ nfeedback.pii_detected
          /\ ~detect_pii(nfeedback.content)

\* C21: after classify_feedback and score_feedback the business impact score
\* lies in [0, 1] (0..10 tenths) and the severity is one of the four tiers,
\* whatever the rating (none, or any integer, also outside 1..5), sentiment,
\* category and PII flag
C21_ScoreBounds ==
    fpc = "scored"
       => /\ feedback.business_impact_score # <<>>
          /\ feedback.business_impact_score[1] \in 0..10
          /\ feedback.severity \in {"low", "medium", "high", "critical"}

\* a scored message whose rating lies above 5 and whose additive sum is
\* negative, so that the lower end of the clamp acts
C21_Witness ==
    /\ fpc = "scored"
    /\ feedback.rating # <<>>
    /\ feedback.rating[1] > 5
    /\ impact_sum(feedback.rating, feedback.sentiment, feedback.category,
                  feedback.severity, feedback.pii_detected) < 0
    /\ feedback.business_impact_score = <<0>>

\* C22: the severity is the bucket of the additive severity score (>= 4
\* critical, >= 2 high, >= 1 medium, else low), the impact score is the
\* additive sum clamped to [0, 1], and a message with rating 1, sentiment
\* negative, category bug and PII detected is critical with score exactly 1.0
C22_SeverityAndImpact ==
    fpc = "scored"
       => LET s == severity_score(feedback.rating, feedback.sentiment,
                                  feedback.category, feedback.pii_detected)
              sum == impact_sum(feedback.rating, feedback.sentiment,
                                feedback.category, feedback.severity,
                                feedback.pii_detected)
          IN  /\ (s >= 4) => feedback.severity = "critical"
              /\ (s >= 2 /\ s < 4) => feedback.severity = "high"
              /\ (s = 1) => feedback.severity = "medium"
              /\ (s < 1) => feedback.severity = "low"
              /\ feedback.business_impact_score =
                    <<IF sum > 10 THEN 10 ELSE IF sum < 0 THEN 0 ELSE sum>>
              /\ (/\ feedback.rating = <<1>>
                  /\ feedback.sentiment = "negative"
                  /\ feedback.category = "bug"
                  /\ feedback.pii_detected)
                    => /\ feedback.severity = "critical"
                       /\ feedback.business_impact_score = <<10>>

\* the scored message of the example: rating 1, negative, bug, PII detected
C22_Witness ==
    /\ fpc = "scored"
    /\ feedback.rating = <<1>>
    /\ feedback.sentiment = "negative"
    /\ feedback.category = "bug"
    /\ feedback.pii_detected
    /\ feedback.severity = "critical"
    /\ feedback.business_impact_score = <<10>>

\* C25: annotations of a processed message.  When the pipeline marks a
\* message processed, the row carries the results computed for that message:
\* the stored sentiment is the sentiment of its text, the stored category is
\* its Level-1 category, and severity and business_impact_score are set.
C25_AnnotationsOfOwnResults ==
    [][(ProcessSingleMessage /\ stats'.successful = stats.successful + 1)
          => \A r \in RowsOf(messages', Current.id) :
                /\ r.processed
                /\ r.sentiment = classify_sentiment(KeywordsIn(r.content))
                /\ r.category = ClassifyRecord(Current).level_1_category
                /\ r.severity # None
                /\ r.business_impact_score # <<>>
      ]_vars

\* C26: every row an ingestion adapter inserts for an id the store did not
\* hold is inserted with processed = FALSE, so that the message enters the
\* queue of the pipeline before it is marked processed
C26_InsertedUnprocessed ==
    [][AutoProcessNewReviews
          => \A id \in AllIds :
                ~RowExists(messages, id)
                   => \A r \in RowsOf(messages', id) : ~r.processed
      ]_vars

\* the same for the adapters that run while the pipeline is idle:
\* fetch_slack_messages_unified, save_posts_to_unified_db,
\* migrate_reddit_data and add_message
InsertedUnprocessedByIngest ==
    [][Ingest
          => \A id \in AllIds :
                ~RowExists(messages, id)
                   => \A r \in RowsOf(messages', id) : ~r.processed
      ]_vars

\* the rows the step marks processed: the current message of process_batch,
\* or the unprocessed rows when the whole queue is processed
Touched(r) ==
    \/ ProcessSingleMessage /\ r.id = Current.id
    \/ ProcessFeedbackQueueUnified /\ ~r.processed

\* no row is added or removed, the rows the step does not mark are the same,
\* and a marked row keeps id, source, title, content, timestamp, created_at
KeepsFrame ==
    /\ Len(messages') = Len(messages)
    /\ \A i \in 1..Len(messages) :
          LET before == messages[i]
              after == messages'[i]
          IN  /\ after.id = before.id
              /\ after.source = before.source
              /\ after.title = before.title
              /\ after.content = before.content
              /\ after.timestamp = before.timestamp
              /\ after.created_at = before.created_at
              /\ after # before => Touched(before)

\* severity and business_impact_score of every row are as before
KeepsScores ==
    /\ Len(messages') = Len(messages)
    /\ \A i \in 1..Len(messages) :
          /\ messages'[i].severity = messages[i].severity
          /\ messages'[i].business_impact_score =
                messages[i].business_impact_score

CashOutCategories(c) ==
    LET result == c.result
    IN  IF c.classifier = "EnhancedMessageClassifier"
        THEN /\ result.level_1_category = "Payments and Cash Out"
             /\ result.level_2_category = "Cash Out"
             /\ result.slack_channel = "#help-cashout-experience"
        ELSE /\ result.level_1_category = "PAYMENTS"
             /\ result.level_2_category = "CASH_OUT"
             /\ result.slack_channel = "C09LBDF1MT8"

C23_CashOutExample ==
    \A i \in 1..Len(calls) :
       calls[i].message = "cashout"
          => /\ CashOutCategories(calls[i])
             /\ calls[i].classifier = "EnhancedMessageClassifier"
                   => calls[i].result.sentiment = "negative"

\* the categories and the channel of the example are as expected
CashOutCategoriesHold ==
    \A i \in 1..Len(calls) :
       calls[i].message = "cashout" => CashOutCategories(calls[i])

(***************************************************************************)
(* C28: the Level-2 category returned is one declared valid under the      *)
(* returned Level-1 category.  The declaration the specification gives is  *)
(* the one of Payments: Cash Out, Lightning Speed, Balance Shield.         *)
(***************************************************************************)
\* Level1Category.PAYMENTS and its value
Payments == {"PAYMENTS", "Payments and Cash Out"}

\* the Level-2 categories valid under Payments: the members CASH_OUT,
\* LIGHTNING_SPEED, BALANCE_SHIELD and their values
ValidUnderPayments ==
    {"CASH_OUT", "LIGHTNING_SPEED", "BALANCE_SHIELD",
     "Cash Out", "Lightning Speed / Transfer Mechanism", "Balance Shield"}

C28_Level2ValidUnderLevel1 ==
    \A i \in 1..Len(calls) :
       calls[i].result.level_1_category \in Payments
          => calls[i].result.level_2_category \in ValidUnderPayments

(***************************************************************************)
(* C29: whenever Level-1 is a specific category (neither Non-relevant nor  *)
(* General Sentiment), Level-2 is the category of a Level-2 keyword or the *)
(* fixed default of that Level-1; it is never Non-relevant.                *)
(***************************************************************************)
\* Level1Category.GENERAL_SENTIMENT and its value
GeneralSentiment == {"GENERAL_SENTIMENT", "General Sentiment"}

\* the call returned a specific Level-1 category
SpecificLevel1(c) ==
    c.result.level_1_category \notin NonRelevant \cup GeneralSentiment

C29_DefaultLevel2 ==
    \A i \in 1..Len(calls) :
       SpecificLevel1(calls[i])
          => calls[i].result.level_2_category \notin NonRelevant

\* the same for MessageClassifier alone, whose _classify_level2 ends with
\* the table of defaults
DefaultLevel2OfMessageClassifier ==
    \A i \in 1..Len(calls) :
       (calls[i].classifier = "MessageClassifier" /\ SpecificLevel1(calls[i]))
          => calls[i].result.level_2_category \notin NonRelevant

(***************************************************************************)
(* C30: the Level-1 category returned by classify_message is one of the    *)
(* nine enumerated Level-1 categories.                                     *)
(***************************************************************************)
\* the members of Level1Category, and level_1_categories of
\* EnhancedMessageClassifier
Level1Categories ==
    {"PRODUCT_FEEDBACK", "CUSTOMER_EXPERIENCE", "TECHNICAL_ISSUES",
     "TRUST_SECURITY", "ONBOARDING", "PAYMENTS", "NOTIFICATIONS",
     "GENERAL_SENTIMENT", "NON_RELEVANT",
     "Product Feedback (Feature/Functionality)",
     "Customer Experience (CX) & Support", "Technical Issues / Bugs",
     "Trust, Security, and Transparency", "Onboarding and Account Setup",
     "Payments and Cash Out", "Notifications and Communication",
     "General Sentiment", "Non-relevant or Ambiguous"}

C30_Level1Enumerated ==
    \A i \in 1..Len(calls) :
       calls[i].result.level_1_category \in Level1Categories

\* the same for MessageClassifier alone, which returns members of the enum
Level1EnumeratedOfMessageClassifier ==
    \A i \in 1..Len(calls) :
       calls[i].classifier = "MessageClassifier"
          => calls[i].result.level_1_category \in Level1Categories

(***************************************************************************)
(* C31: the sentiment pass.  If a problem phrase occurs in a message the   *)
(* result is negative with confidence 0.8 whatever the keyword counts;     *)
(* otherwise it is the majority list with confidence majorityCount /       *)
(* (posCount + negCount), neutral with confidence 0.4 on equal nonzero     *)
(* counts and neutral with confidence 0.3 on no match.  The confidence is  *)
(* in [0, 1].  Confidences are fractions <<n, d>>.                         *)
(***************************************************************************)
\* the fractions are the same number
SameFraction(a, b) == a[1] * b[2] = b[1] * a[2]

C31_SentimentPass ==
    \A i \in 1..Len(calls) :
       LET found == calls[i].found
           sentiment == calls[i].result[1]
           confidence == calls[i].result[2]
           posCount == Cardinality(found \cap positive_keywords)
           negCount == Cardinality(found \cap negative_keywords)
       IN  /\ confidence[2] > 0
           /\ 0 <= confidence[1]
           /\ confidence[1] <= confidence[2]
           /\ ~calls[i].empty
                 => IF found \cap problem_phrases # {}
                    THEN /\ sentiment = "negative"
                         /\ SameFraction(confidence, <<8, 10>>)
                    ELSE IF posCount + negCount = 0
                    THEN /\ sentiment = "neutral"
                         /\ SameFraction(confidence, <<3, 10>>)
                    ELSE IF posCount = negCount
                    THEN /\ sentiment = "neutral"
                         /\ SameFraction(confidence, <<4, 10>>)
                    ELSE IF posCount > negCount
                    THEN /\ sentiment = "positive"
                         /\ SameFraction(confidence,
                                         <<posCount, posCount + negCount>>)
                    ELSE /\ sentiment = "negative"
                         /\ SameFraction(confidence,
                                         <<negCount, posCount + negCount>>)

\* a message with a problem phrase and more positive than negative keywords
\* was analysed: negative with confidence 0.8
C31_Witness ==
    \E i \in 1..Len(calls) :
       /\ calls[i].found \cap problem_phrases # {}
       /\ Cardinality(calls[i].found \cap positive_keywords)
             > Cardinality(calls[i].found \cap negative_keywords)
       /\ calls[i].result = <<"negative", <<8, 10>>>>

(***************************************************************************)
(* C32: the Level-1 tie-break.  When two or more categories share the top  *)
(* score, the category returned is the one that comes first in the         *)
(* iteration order of the category keyword table; nothing else influences  *)
(* the choice.  The score of a category is the sum of the weights of its   *)
(* keywords found, divided by the length of its list (MessageClassifier),  *)
(* or the number of its keywords found (EnhancedMessageClassifier).        *)
(***************************************************************************)
\* the score of category c is at least the one of category d
AtLeast(classifier, found, c, d) ==
    IF classifier = "MessageClassifier"
    THEN RawScore(KEYWORDS(c), found) * Len(KEYWORDS(d))
            >= RawScore(KEYWORDS(d), found) * Len(KEYWORDS(c))
    ELSE Cardinality(classification_keywords(c) \cap found)
            >= Cardinality(classification_keywords(d) \cap found)

\* the keyword table of the classifier in its iteration order
KeywordTable(classifier) ==
    IF classifier = "MessageClassifier" THEN L1Order ELSE classification_table

\* the first category of the table that has the top score
FirstTop(classifier, found) ==
    LET table == KeywordTable(classifier)
        i == CHOOSE i \in 1..Len(table) :
                /\ \A j \in 1..Len(table) :
                      AtLeast(classifier, found, table[i], table[j])
                /\ \A j \in 1..(i - 1) :
                      ~AtLeast(classifier, found, table[j], table[i])
    IN  table[i]

C32_Level1TieBreak ==
    \A i \in 1..Len(calls) :
       calls[i].result \notin NonRelevant \cup GeneralSentiment
          => calls[i].result = FirstTop(calls[i].classifier, calls[i].found)

\* the same where the top score is not shared
Level1TopWins ==
    \A i \in 1..Len(calls) :
       LET c == calls[i]
           top == FirstTop(c.classifier, c.found)
       IN  (/\ c.result \notin NonRelevant \cup GeneralSentiment
            /\ \A d \in Range(KeywordTable(c.classifier)) \ {top} :
                  ~AtLeast(c.classifier, c.found, d, top))
              => c.result = top

(***************************************************************************)
(* C33: the reply eligibility filter.  No reply is posted to a message     *)
(* that has a bot_id, has the subtype bot_message, has a user id starting  *)
(* with B, has no text, or whose timestamp is in the replied-set; so the   *)
(* reply system never replies to its own replies, which carry its bot_id.  *)
(***************************************************************************)
\* this step called post_reply for the message (with or without success)
ReplyAttempted(m) ==
    \/ replies'[m.ts] # replies[m.ts]
    \/ reply_requests'[m.ts] # reply_requests[m.ts]
    \/ /\ last_reply' # <<>>
       /\ last_reply'[1].original_message_ts = m.ts
       /\ ProcessMessage

C33_ReplyEligibility ==
    [][\A m \in ReplyChannelMessages :
          ReplyAttempted(m)
             => /\ m.bot_id = None
                /\ m.subtype # "bot_message"
                /\ ~StartsWithB(m.user)
                /\ m.text # ""
                /\ m.ts \notin processed_messages
      ]_vars

\* a run over a channel that holds a message of a user, a message with the
\* subtype bot_message, a message without text and a message of a user id
\* starting with B has just replied to the first one, and to no other
C33_Witness ==
    /\ slack_history = <<SlackMsg7, SlackMsg6, SlackMsg5, SlackMsg1>>
    /\ rpc = "ready"
    /\ last_reply = <<[original_message_ts |-> SlackMsg1.ts,
                       success |-> TRUE]>>
    /\ replies[SlackMsg1.ts] = 1
    /\ \A m \in {SlackMsg5, SlackMsg6, SlackMsg7} :
          replies[m.ts] = 0 /\ reply_requests[m.ts] = {}

(***************************************************************************)
(* C34: for every message, over any number of processing cycles run one    *)
(* after the other, at most one post to its destination channel succeeds:  *)
(* a message whose post succeeded and that was counted successful is       *)
(* stored with processed = TRUE and is never fetched or posted again.      *)
(***************************************************************************)
C34_AtMostOneSuccessfulPost ==
    \A id \in DOMAIN post_success : post_success[id] <= 1

\* the second half of the claim: a posted message is never fetched again
C34_PostedNeverFetchedAgain ==
    [][RunProcessingCycle =>
          \A i \in 1..Len(fetched') : post_success[fetched'[i].id] = 0]_vars

(***************************************************************************)
(* C35: batch accounting.  For every batch the statistics process_batch    *)
(* returns satisfy successful + failed = total and skipped = 0, the errors *)
(* list has exactly one entry per failed message, and the session counters *)
(* processed_count and error_count grow by successful and by failed.       *)
(***************************************************************************)
\* the ids of the fetched messages that are still unprocessed: within a
\* batch these are the messages whose handling failed
FailedIds ==
    SelectSeq([i \in 1..Len(fetched) |-> fetched[i].id],
              LAMBDA id : id \in Range(handled) /\ IsUnprocessed(messages, id))

C35_BatchAccounting ==
    [][/\ ProcessSingleMessage =>
             /\ processed_count' - processed_count
                   = stats'.successful - stats.successful
             /\ error_count' - error_count = stats'.failed - stats.failed
             /\ stats'.successful + stats'.failed
                   = stats.successful + stats.failed + 1
             /\ stats'.total = stats.total
       /\ pc' = "done" =>
             /\ stats'.successful + stats'.failed = stats'.total
             /\ stats'.total = Len(fetched')
             /\ stats'.skipped = 0
             /\ Len(stats'.errors) = stats'.failed
             /\ stats'.errors = FailedIds'
             /\ processed_count' = stats'.successful
             /\ error_count' = stats'.failed
      ]_vars

\* a batch of two has ended: the first message was posted and the post of
\* the second one failed
C35_Witness ==
    /\ pc = "done"
    /\ Len(fetched) = 2
    /\ stats.total = 2
    /\ stats.successful = 1
    /\ stats.failed = 1
    /\ stats.errors = <<fetched[2].id>>
    /\ processed_count = 1
    /\ error_count = 1

(***************************************************************************)
(* C36: in the Slack review adapter with the watermark in memory, the      *)
(* watermark never advances past a review that was not persisted: after    *)
(* any sequence of check_for_new_reviews, auto_process_new_reviews and     *)
(* check_new_reviews calls, every parsed review whose ts is at most        *)
(* last_processed_timestamp is in the store.                               *)
(***************************************************************************)
\* the reviews of the channel the watermark has reached
ReviewsUpToWatermark ==
    IF last_processed_timestamp = <<>> THEN {}
    ELSE {parse_review(slack_history[i])[1] :
             i \in {j \in 1..Len(slack_history) :
                       /\ parse_review(slack_history[j]) # <<>>
                       /\ slack_history[j].ts <= last_processed_timestamp[1]}}

C36_WatermarkBehindStore ==
    \A d \in ReviewsUpToWatermark : \E r \in feedbacks : r.id = d.id

\* the same for runs in which only auto_process_new_reviews is called and
\* save_feedback never fails: this holds
WatermarkBehindSavedReviews ==
    [][AutoProcessReviews
          /\ Cardinality(feedbacks') - Cardinality(feedbacks)
               = Cardinality(ReviewsUpToWatermark' \ ReviewsUpToWatermark)
          /\ C36_WatermarkBehindStore
          => C36_WatermarkBehindStore']_vars

NoReplyOnBothPaths ==
    \A ts \in SlackTs : ~(ts \in pipeline_replied /\ replies[ts] > 0)

(***************************************************************************)
(* C38: for every message id, get_ticket_for_message returns JIRA-<n> with *)
(* n in the documented range 613401..614400.                               *)
(***************************************************************************)
C38_TicketInDocumentedRange ==
    \A i \in 1..Len(calls) : calls[i].result \in 613401..614400

\* the range of the code: 613400 + (hash_value % 1000) is in 613400..614399,
\* and the same id always gets the same ticket
TicketInComputedRange ==
    \A i, j \in 1..Len(calls) :
       /\ calls[i].result \in 613400..614399
       /\ calls[i].message_id = calls[j].message_id
             => calls[i].result = calls[j].result

=============================================================================
